---- MODULE Spec2Model ----
(***************************************************************************)
(* A model of the simulation core of Roguely: the A* pathfinder, the       *)
(* cellular-automaton map generator, the entity registry (EntityManager),  *)
(* the script-facing generic component access, Game's typed component      *)
(* access, the maps, the viewport and the field of view, the random-point  *)
(* searches and the random sources.  Each subsystem has its own variables  *)
(* and its own specification; the variables of the other subsystems stay   *)
(* idle.                                                                   *)
(***************************************************************************)
EXTENDS Integers, Sequences, FiniteSets, TLC

VARIABLES
    \* AStar::FindPath: the arguments of the call and what it returned
    grid, start_row, start_col, goal_row, goal_col, astar_pc, path,
    \* Engine::generate_map: the map being generated, the arguments of the calls
    \* (map_in: the matrix as perform_cellular_automaton received it)
    map, map_width, map_height, passes, map_in, ca_pc,
    \* EntityManager: the groups, the entity objects they point to, the
    \* script-visible table, Id::nextId, and the last call with its outcome
    entity_groups, heap, lua_entities, nextId, reg_call, reg_ret,
    \* Game (Game.cpp): its entity groups, the entity objects, the player
    \* pointer, and the last call with its outcome
    game_entity_groups, game_entities, player, game_call, game_ret,
    \* Game (Game.cpp): its maps and the current map
    game_maps, game_current_map,
    \* Engine (engine.h): the maps, the current map, the viewport, and the
    \* last call with its outcome
    maps, current_map_info, VIEW_PORT_WIDTH, VIEW_PORT_HEIGHT,
    view_port_x, view_port_y, view_port_width, view_port_height,
    current_dimension, eng_call, eng_ret,
    \* the number of update_player_viewport calls made so far
    view_updates,
    \* get_random_point_on_map: where the call stands, the attempts counter of
    \* Map::get_random_point and the point it returned
    search_pc, attempts, found_point,
    \* generate_random_int (engine.cpp) and the callers of std::rand
    \* (Game.cpp): the holder of gen_mut, the state of the generator gen_mt,
    \* the state of the generator behind std::rand, and each thread's position
    \* and the generator state it has read
    gen_mut, gen_mt, rand_next, thread_pc, thread_ret,
    \* Map (engine.h): the Dimension the cached segment was built for, what the
    \* segment texture holds, the last call with its outcome, and what has
    \* happened to the segment so far
    current_map_segment_dimension, current_map_segment_texture,
    draw_call, draw_ret, draw_hist,
    \* Engine::game_loop: the registered systems, where the loop stands, the
    \* callbacks called in this frame, the systems the range-for has yet to
    \* visit, the quit flag, the events polled in this frame, and the time
    \* since last_update_time
    systems, loop_pc, frame_log, to_visit, quit, polled, elapsed,
    \* Engine's instance counter, and for each thread that constructs and
    \* destroys engines: where it stands, the value its increment returned,
    \* and what it met when it incremented
    instance_ctr, ctor_pc, ctor_seen, ctor_met

astar_vars == <<grid, start_row, start_col, goal_row, goal_col, astar_pc, path>>

ca_vars == <<map, map_width, map_height, passes, map_in, ca_pc>>

reg_vars == <<entity_groups, heap, lua_entities, nextId, reg_call, reg_ret>>

gmap_vars == <<game_maps, game_current_map>>

game_vars == <<game_entity_groups, game_entities, player, game_call, game_ret, gmap_vars>>

search_vars == <<search_pc, attempts, found_point>>

rng_vars == <<gen_mut, gen_mt, rand_next, thread_pc, thread_ret>>

draw_vars == <<current_map_segment_dimension, current_map_segment_texture,
               draw_call, draw_ret, draw_hist>>

loop_vars == <<systems, loop_pc, frame_log, to_visit, quit, polled, elapsed>>

inst_vars == <<instance_ctr, ctor_pc, ctor_seen, ctor_met>>

\* The engine's variables outside the maps and the viewport
side_vars == <<draw_vars, loop_vars, inst_vars>>

\* The maps and the viewport
core_vars == <<maps, current_map_info, VIEW_PORT_WIDTH, VIEW_PORT_HEIGHT,
               view_port_x, view_port_y, view_port_width, view_port_height,
               current_dimension, eng_call, eng_ret, view_updates>>

eng_vars == <<maps, current_map_info, VIEW_PORT_WIDTH, VIEW_PORT_HEIGHT,
              view_port_x, view_port_y, view_port_width, view_port_height,
              current_dimension, eng_call, eng_ret, view_updates,
              search_vars, rng_vars, side_vars>>

vars == <<astar_vars, ca_vars, reg_vars, game_vars, eng_vars>>

\* ------------------------------------------------------------------------
\* Bounds of the model
\* ------------------------------------------------------------------------
MaxGridRows == 3
MaxGridCols == 3
MaxMapWidth == 5
MaxMapHeight == 4
MaxPasses == 2
MaxOddDraws == 2
MaxId == 3
MaxGroups == 2
MaxGroupSize == 2
MaxGameGroups == 1
MaxGameEntities == 2
MaxComponents == 1
MaxGenWidth == 3
MaxGenHeight == 2
MaxMaps == 2
MaxViewWidth == 3
MaxViewHeight == 3
MaxViewUpdates == 1
MaxScriptId == 6
MaxEvents == 2
MaxFrameCalls == 4
MaxElapsed == 3

\* ------------------------------------------------------------------------
\* GenericMatrix<T> (engine.h): nr x nc cells, accessed through at()
\* ------------------------------------------------------------------------
Cells(nr, nc) == (0..(nr - 1)) \X (0..(nc - 1))

GenericMatrix(nrows, ncols, fill) ==
    [nr |-> nrows, nc |-> ncols, rows |-> [p \in Cells(nrows, ncols) |-> fill]]

\* rows.at(r).at(c) throws std::out_of_range unless this holds
InRange(m, r, c) == r >= 0 /\ r < m.nr /\ c >= 0 /\ c < m.nc

At(m, r, c) == m.rows[<<r, c>>]

Put(m, r, c, v) == [m EXCEPT !.rows[<<r, c>>] = v]

size1(m) == m.nr

size2(m) == m.nc

\* ------------------------------------------------------------------------
\* AStar (engine.h, engine.cpp)
\* ------------------------------------------------------------------------
INT_MAX == 2147483647

Abs(n) == IF n < 0 THEN -n ELSE n

heuristic(x1, y1, x2, y2) == Abs(x1 - x2) + Abs(y1 - y2)

dx == <<-1, 1, 0, 0>>

dy == <<0, 0, -1, 1>>

\* std::greater<pq_entry> on pair<int, pair<int,int>>: the top of the queue is
\* the lexicographically smallest <<priority, x, y>>
PqLess(a, b) ==
    \/ a[1] < b[1]
    \/ a[1] = b[1] /\ a[2] < b[2]
    \/ a[1] = b[1] /\ a[2] = b[2] /\ a[3] < b[3]

PqTop(open_list) == CHOOSE e \in open_list : \A o \in open_list : o = e \/ PqLess(e, o)

\* One iteration of the neighbour loop (engine.cpp 754-773) for direction i
Relax(g, st, x, y, i, goal_row_, goal_col_) ==
    LET nx == x + dx[i]
        ny == y + dy[i]
    IN  IF nx >= 0 /\ nx < size1(g) /\ ny >= 0 /\ ny < size2(g) /\ At(g, nx, ny) = 0
        THEN LET new_cost == At(st.cost, x, y) + 1
             IN  IF new_cost < At(st.cost, nx, ny)
                 THEN [open_list |-> st.open_list \cup
                                     {<<new_cost + heuristic(nx, ny, goal_col_, goal_row_), nx, ny>>},
                       cost      |-> Put(st.cost, nx, ny, new_cost),
                       parent    |-> Put(st.parent, nx, ny, <<x, y>>)]
                 ELSE st
        ELSE st

Explore(g, st, x, y, goal_row_, goal_col_) ==
    LET s1 == Relax(g, st, x, y, 1, goal_row_, goal_col_)
        s2 == Relax(g, s1, x, y, 2, goal_row_, goal_col_)
        s3 == Relax(g, s2, x, y, 3, goal_row_, goal_col_)
    IN  Relax(g, s3, x, y, 4, goal_row_, goal_col_)

\* The backtracking loop (engine.cpp 744-749), before std::reverse
RECURSIVE Backtrack(_, _, _, _, _, _)
Backtrack(parent, x, y, start_row_, start_col_, acc) ==
    IF x # start_row_ \/ y # start_col_
    THEN Backtrack(parent, At(parent, x, y)[1], At(parent, x, y)[2],
                   start_row_, start_col_, Append(acc, <<x, y>>))
    ELSE Append(acc, <<start_row_, start_col_>>)

Reverse(s) == [i \in 1..Len(s) |-> s[Len(s) + 1 - i]]

\* The while (!open_list.empty()) loop (engine.cpp 735-778)
RECURSIVE SearchLoop(_, _, _, _, _, _)
SearchLoop(g, st, start_row_, start_col_, goal_row_, goal_col_) ==
    IF st.open_list = {}
    THEN <<>>
    ELSE LET top  == PqTop(st.open_list)
             x    == top[2]
             y    == top[3]
             rest == [st EXCEPT !.open_list = st.open_list \ {top}]
         IN  IF x = goal_col_ /\ y = goal_row_
             THEN Reverse(Backtrack(st.parent, x, y, start_row_, start_col_, <<>>))
             ELSE SearchLoop(g, Explore(g, rest, x, y, goal_row_, goal_col_),
                             start_row_, start_col_, goal_row_, goal_col_)

\* AStar::FindPath: [threw |-> an index error left the call, path |-> the result]
FindPath(g, start_row_, start_col_, goal_row_, goal_col_) ==
    IF ~InRange(g, start_col_, start_row_)
    THEN [threw |-> TRUE, path |-> <<>>]
    ELSE IF At(g, start_col_, start_row_) # 0
    THEN [threw |-> FALSE, path |-> <<>>]
    ELSE LET grid_rows == size1(g)
             grid_cols == size2(g)
             st0 == [open_list |-> {<<0, start_row_, start_col_>>},
                     cost      |-> Put(GenericMatrix(grid_rows, grid_cols, INT_MAX),
                                       start_row_, start_col_, 0),
                     parent    |-> GenericMatrix(grid_rows, grid_cols, <<0, 0>>)]
         IN  [threw |-> FALSE,
              path  |-> SearchLoop(g, st0, start_row_, start_col_, goal_row_, goal_col_)]

\* Every grid of walkable (0) and blocked (1) cells within the bounds
Grids ==
    UNION { { [nr |-> r, nc |-> c, rows |-> f] : f \in [Cells(r, c) -> {0, 1}] } :
            <<r, c>> \in (1..MaxGridRows) \X (1..MaxGridCols) }

AStarIdle ==
    /\ grid = GenericMatrix(0, 0, 0)
    /\ start_row = 0 /\ start_col = 0 /\ goal_row = 0 /\ goal_col = 0
    /\ astar_pc = "idle"
    /\ path = <<>>

\* A caller holds a grid and a start and a goal inside it
AStarInit ==
    /\ grid \in Grids
    /\ start_row \in 0..(grid.nr - 1) /\ start_col \in 0..(grid.nc - 1)
    /\ goal_row \in 0..(grid.nr - 1) /\ goal_col \in 0..(grid.nc - 1)
    /\ astar_pc = "call"
    /\ path = <<>>

CallFindPath ==
    /\ astar_pc = "call"
    /\ LET r == FindPath(grid, start_row, start_col, goal_row, goal_col)
       IN  /\ astar_pc' = IF r.threw THEN "index_error" ELSE "returned"
           /\ path' = r.path
    /\ UNCHANGED <<grid, start_row, start_col, goal_row, goal_col>>

AStarNext == CallFindPath /\ UNCHANGED <<ca_vars, reg_vars, game_vars, eng_vars>>

\* ------------------------------------------------------------------------
\* What the claims about FindPath speak of: 4-connected walkable routes
\* ------------------------------------------------------------------------
Adjacent(p, q) == Abs(p[1] - q[1]) + Abs(p[2] - q[2]) = 1

Walkable(g) == {p \in Cells(g.nr, g.nc) : At(g, p[1], p[2]) = 0}

\* The walkable cells at most k steps from src along walkable cells
RECURSIVE Ball(_, _, _)
Ball(g, src, k) ==
    IF k = 0
    THEN {src} \cap Walkable(g)
    ELSE LET b == Ball(g, src, k - 1)
         IN  b \cup {q \in Walkable(g) : \E p \in b : Adjacent(p, q)}

Connected(g, src, dst) == dst \in Ball(g, src, g.nr * g.nc)

\* Steps of a shortest walkable route (only used where Connected holds)
ShortestSteps(g, src, dst) ==
    CHOOSE k \in 0..(g.nr * g.nc) :
        /\ dst \in Ball(g, src, k)
        /\ \A j \in 0..(k - 1) : dst \notin Ball(g, src, j)

FourConnected(s) == \A i \in 1..(Len(s) - 1) : Adjacent(s[i], s[i + 1])

\* C1: a non-empty result of FindPath starts at (start_row, start_col), ends at
\* (goal_row, goal_col) in the same (row, col) convention, and every two
\* consecutive elements are one step up, down, left or right apart.
C1_PathJoinsStartToGoal ==
    (astar_pc = "returned" /\ path # <<>>) =>
        /\ path[1] = <<start_row, start_col>>
        /\ path[Len(path)] = <<goal_row, goal_col>>
        /\ FourConnected(path)

\* C2: when the start cell grid(start_row, start_col) is blocked, FindPath
\* returns the empty sequence: no returned path begins on a blocked start cell.
C2_BlockedStartGivesEmpty ==
    (astar_pc = "returned" /\ At(grid, start_row, start_col) # 0) => path = <<>>

\* C3: with an unblocked start cell, FindPath returns the empty sequence if
\* and only if no 4-connected chain of walkable cells joins start to goal.
C3_EmptyIffUnreachable ==
    (astar_pc = "returned" /\ At(grid, start_row, start_col) = 0) =>
        (path = <<>> <=>
            ~Connected(grid, <<start_row, start_col>>, <<goal_row, goal_col>>))

\* C4: a non-empty result of FindPath has as many cells as a shortest
\* 4-connected walkable route from start to goal has steps, plus one.
C4_PathIsShortest ==
    (astar_pc = "returned" /\ path # <<>>) =>
        /\ Connected(grid, <<start_row, start_col>>, <<goal_row, goal_col>>)
        /\ Len(path) =
               ShortestSteps(grid, <<start_row, start_col>>, <<goal_row, goal_col>>) + 1

\* C27: for every rectangular grid (rows # cols included) and every start and
\* goal inside it, FindPath never indexes the grid, the cost matrix or the
\* parent matrix out of range: no call with valid arguments ends in an index
\* error.
C27_NoIndexError ==
    (/\ InRange(grid, start_row, start_col)
     /\ InRange(grid, goal_row, goal_col)) => astar_pc # "index_error"

\* ------------------------------------------------------------------------
\* Map generator (engine.cpp): init_cellular_automata, perform_cellular_automaton
\* ------------------------------------------------------------------------
\* A count that leaves out the cells of the border and beyond instead of
\* counting them as walls
get_neighbor_wall_count_inside_only(m, w, h, x, y) ==
    Cardinality({rc \in ((y - 1)..(y + 1)) \X ((x - 1)..(x + 1)) :
        /\ rc[1] >= 1 /\ rc[2] >= 1 /\ rc[1] < h - 1 /\ rc[2] < w - 1
        /\ At(m, rc[1], rc[2]) = 0})

\* The lambda get_neighbor_wall_count(x, y) of perform_cellular_automaton
get_neighbor_wall_count(m, w, h, x, y) ==
    Cardinality({rc \in ((y - 1)..(y + 1)) \X ((x - 1)..(x + 1)) :
        IF rc[1] >= 1 /\ rc[2] >= 1 /\ rc[1] < h - 1 /\ rc[2] < w - 1
        THEN At(m, rc[1], rc[2]) = 0
        ELSE TRUE})

\* The body of the two inner loops for one cell: the cell is written into the
\* matrix the following cells read
SmoothCell(m, w, h, r, c) ==
    IF get_neighbor_wall_count(m, w, h, c, r) > 4
    THEN Put(m, r, c, 0)
    ELSE Put(m, r, c, 1)

\* The loops over r and c of one pass, from the k-th cell in row-major order
RECURSIVE SmoothFrom(_, _, _, _)
SmoothFrom(m, w, h, k) ==
    IF k >= w * h
    THEN m
    ELSE LET written == SmoothCell(m, w, h, k \div w, k % w)
         IN  \* the size test has TLC compute the matrix of this cell before
             \* the next cell is taken up; the cell write never resizes it
             IF size1(written) = size1(m)
             THEN SmoothFrom(written, w, h, k + 1)
             ELSE written

RECURSIVE perform_cellular_automaton(_, _, _, _)
perform_cellular_automaton(m, w, h, n) ==
    IF n <= 0
    THEN m
    ELSE perform_cellular_automaton(SmoothFrom(m, w, h, 0), w, h, n - 1)

\* generate_random_int(1, 100): floor (1) if the draw is above 48, else wall (0)
SeedCell(z) == IF z > 48 THEN 1 ELSE 0

\* One draw on each side of the threshold stands for the hundred
Draws == {48, 49}

\* The subsets of S of at most k elements
RECURSIVE SubsetsUpTo(_, _)
SubsetsUpTo(S, k) ==
    IF k = 0
    THEN {{}}
    ELSE LET prev == SubsetsUpTo(S, k - 1)
         IN  prev \cup {T \cup {x} : T \in prev, x \in S}

\* The sequences of draws the model follows: all cells draw on one side of
\* the threshold, except at most MaxOddDraws cells
DrawSequences(cells) ==
    { [p \in cells |-> IF p \in odd THEN CHOOSE d \in Draws : d # base ELSE base] :
          odd \in SubsetsUpTo(cells, MaxOddDraws), base \in Draws }

CAIdle ==
    /\ map = GenericMatrix(0, 0, 0)
    /\ map_width = 0 /\ map_height = 0 /\ passes = 0
    /\ map_in = GenericMatrix(0, 0, 0)
    /\ ca_pc = "idle"

\* generate_map(name, map_width, map_height) has been entered
CAInit ==
    /\ map_width \in 1..MaxMapWidth
    /\ map_height \in 1..MaxMapHeight
    /\ map = GenericMatrix(map_height, map_width, 0)
    /\ passes = 0
    /\ map_in = GenericMatrix(0, 0, 0)
    /\ ca_pc = "new"

init_cellular_automata ==
    /\ ca_pc = "new"
    /\ \E z \in DrawSequences(Cells(map_height, map_width)) :
           map' = [nr |-> map_height, nc |-> map_width,
                   rows |-> [p \in Cells(map_height, map_width) |-> SeedCell(z[p])]]
    /\ ca_pc' = "seeded"
    /\ UNCHANGED <<map_width, map_height, passes, map_in>>

CallPerformCellularAutomaton ==
    /\ ca_pc = "seeded"
    /\ \E n \in 0..MaxPasses :
           /\ passes' = n
           /\ map_in' = map
           /\ map' = perform_cellular_automaton(map, map_width, map_height, n)
    /\ ca_pc' = "smoothed"
    /\ UNCHANGED <<map_width, map_height>>

CANext ==
    \/ init_cellular_automata /\ UNCHANGED <<astar_vars, reg_vars, game_vars, eng_vars>>
    \/ CallPerformCellularAutomaton /\ UNCHANGED <<astar_vars, reg_vars, game_vars, eng_vars>>

\* The pass the claims compare with: every cell from the grid before the pass
ReferencePass(m, w, h) ==
    [m EXCEPT !.rows = [p \in Cells(h, w) |->
        IF get_neighbor_wall_count(m, w, h, p[2], p[1]) > 4 THEN 0 ELSE 1]]

\* C5: one smoothing pass computes every cell from the grid as it was at the
\* start of the pass: its result is the result of the double-buffered pass.
C5_PassReadsOldGrid ==
    (ca_pc = "smoothed" /\ passes = 1) =>
        map = ReferencePass(map_in, map_width, map_height)

\* The cells of the first and last row and of the first and last column
BorderCells(h, w) ==
    {p \in Cells(h, w) : p[1] = 0 \/ p[1] = h - 1 \/ p[2] = 0 \/ p[2] = w - 1}

\* C26: after perform_cellular_automaton with at least one pass, on a grid of
\* width >= 1 and height >= 1, every cell of the first and last row and of
\* the first and last column is a wall (0).
C26_BorderIsWall ==
    (ca_pc = "smoothed" /\ passes >= 1 /\ map_width >= 1 /\ map_height >= 1) =>
        \A p \in BorderCells(map_height, map_width) : At(map, p[1], p[2]) = 0

\* A seeded grid with floor in a corner and on an edge is smoothed, and floor
\* is left inside the border
C26_Witness ==
    /\ ca_pc = "smoothed" /\ passes >= 1
    /\ map_width = 5 /\ map_height = 4
    /\ At(map_in, 0, 0) = 1 /\ At(map_in, 3, 2) = 1
    /\ At(map, 0, 0) = 0 /\ At(map, 3, 2) = 0
    /\ \E p \in Cells(map_height, map_width) : At(map, p[1], p[2]) = 1

\* ------------------------------------------------------------------------
\* Entity registry (engine.h, engine.cpp): Entity, EntityGroup, EntityManager
\* ------------------------------------------------------------------------
\* The names the callers use (any string is allowed by the code)
GroupNames == {"mobs", "items"}

EntityNames == {"rat", "bat"}

ComponentNames == {"health", "stats"}

Keys == {"hp", "max"}

Values == {2}

\* A Lua table with string keys, as a function from the keys it holds
EmptyTable == [k \in {} |-> 0]

HasKey(t, k) == k \in DOMAIN t

TableSet(t, k, v) == [x \in (DOMAIN t) \cup {k} |-> IF x = k THEN v ELSE t[x]]

\* The component tables scripts pass to add_entity
PropertyTables ==
    { EmptyTable,
      [c \in {"health"} |-> [k \in {"hp"} |-> 1]],
      [c \in {"position_component"} |-> [k \in {"x", "y"} |-> 1]] }

\* Id::Id(): the id is the counter's value, the counter moves on.  Ids are
\* the decimal strings of these numbers, equal exactly when the numbers are.
generate_uuid(next) == [id |-> next, next |-> next + 1]

\* nullptr for a std::shared_ptr<Entity>; entities are numbered from 1
NullEntity == 0

\* nullptr for a std::shared_ptr<EntityGroup>; groups are numbered from 1
NullGroup == 0

\* Entity::find_first_component_by_type<LuaComponent>: index of the first
\* component that is a LuaComponent (LuaComponent is the only component type
\* of engine.h), 0 for nullptr
find_first_component_by_type(e) == IF Len(e.components) = 0 THEN 0 ELSE 1

\* std::format("{}-{}", name, id)
full_name(e) == <<e.name, e.id>>

\* EntityManager::get_entity_group: index of the first group of that name
get_entity_group(egs, group_name) ==
    IF \E i \in 1..Len(egs) : egs[i].name = group_name
    THEN CHOOSE i \in 1..Len(egs) :
             /\ egs[i].name = group_name
             /\ \A j \in 1..(i - 1) : egs[j].name # group_name
    ELSE NullGroup

\* EntityManager::create_entity_group
create_entity_group(egs, group_name) ==
    Append(egs, [name |-> group_name, entities |-> <<>>])

\* EntityManager::add_entity_to_group, e an entity object of hp
add_entity_to_group_always_new(egs, lua, hp, group_name, e) ==
    LET egs1 == Append(egs, [name |-> group_name, entities |-> <<e>>])
        tbl  == IF ~lua[group_name].valid THEN {} ELSE lua[group_name].keys
        tbl2 == IF find_first_component_by_type(hp[e]) # 0
                THEN tbl \cup {full_name(hp[e])}
                ELSE tbl
    IN  [entity_groups |-> egs1,
         lua_entities  |-> [lua EXCEPT ![group_name] = [valid |-> TRUE, keys |-> tbl2]]]

add_entity_to_group(egs, lua, hp, group_name, e) ==
    LET found == get_entity_group(egs, group_name)
        egs1  == IF found = NullGroup
                 THEN Append(egs, [name |-> group_name, entities |-> <<>>])
                 ELSE egs
        group == IF found = NullGroup THEN Len(egs1) ELSE found
        egs2  == [egs1 EXCEPT ![group].entities = Append(@, e)]
        tbl   == IF ~lua[group_name].valid THEN {} ELSE lua[group_name].keys
        tbl2  == IF find_first_component_by_type(hp[e]) # 0
                 THEN tbl \cup {full_name(hp[e])}
                 ELSE tbl
    IN  [entity_groups |-> egs2,
         lua_entities  |-> [lua EXCEPT ![group_name] = [valid |-> TRUE, keys |-> tbl2]]]

\* std::find_if over a group's entity list: the first position whose entity
\* satisfies P, 0 for end()
FirstWhere(es, P(_)) ==
    IF \E k \in 1..Len(es) : P(es[k])
    THEN CHOOSE k \in 1..Len(es) : P(es[k]) /\ \A j \in 1..(k - 1) : ~P(es[j])
    ELSE 0

\* vector::erase(position k)
Erase(es, k) == [i \in 1..(Len(es) - 1) |-> IF i < k THEN es[i] ELSE es[i + 1]]

\* A removal that erases the entity and leaves its key in the group's table
remove_entity_keeping_key(egs, lua, hp, entity_group_name, entity_id) ==
    LET entity_group == get_entity_group(egs, entity_group_name)
        same == [threw |-> FALSE, entity_groups |-> egs, lua_entities |-> lua]
    IN  IF entity_group = NullGroup
        THEN same
        ELSE LET es == egs[entity_group].entities
                 entity_to_remove == FirstWhere(es, LAMBDA h : hp[h].id = entity_id)
             IN  IF entity_to_remove = 0
                 THEN same
                 ELSE [same EXCEPT !.entity_groups =
                           [egs EXCEPT ![entity_group].entities = Erase(es, entity_to_remove)]]

\* EntityManager::remove_entity.  lua_entities[entity_group_name] is converted
\* to a sol::table and set() is called on it before the erase: when the group
\* has no table (nil) the conversion (SOL_ALL_SAFETIES_ON) or, failing that,
\* the set raises an error, and the erase is not reached.
remove_entity(egs, lua, hp, entity_group_name, entity_id) ==
    LET entity_group == get_entity_group(egs, entity_group_name)
        same == [threw |-> FALSE, entity_groups |-> egs, lua_entities |-> lua]
    IN  IF entity_group = NullGroup
        THEN same
        ELSE LET es == egs[entity_group].entities
                 entity_to_remove == FirstWhere(es, LAMBDA h : hp[h].id = entity_id)
             IN  IF entity_to_remove = 0
                 THEN same
                 ELSE IF ~lua[entity_group_name].valid
                 THEN [same EXCEPT !.threw = TRUE]
                 ELSE [threw |-> FALSE,
                       entity_groups |->
                           [egs EXCEPT ![entity_group].entities = Erase(es, entity_to_remove)],
                       lua_entities |->
                           [lua EXCEPT ![entity_group_name].keys =
                                @ \ {full_name(hp[es[entity_to_remove]])}]]

\* The predicates callers pass to find_entities_in_group: by name, or every
\* entity (get_entity_by_id passes the predicate by id to find_entity)
Predicates ==
    { [kind |-> "name", name |-> n, id |-> 0] : n \in EntityNames } \cup
    { [kind |-> "all", name |-> "", id |-> 0] }

Satisfies(e, pred) ==
    CASE pred.kind = "name" -> e.name = pred.name
      [] pred.kind = "id"   -> e.id = pred.id
      [] OTHER              -> TRUE

\* The subsequence of es whose entities satisfy pred, in order
RECURSIVE Filter(_, _, _)
Filter(es, hp, pred) ==
    IF es = <<>>
    THEN <<>>
    ELSE LET rest == Filter(Tail(es), hp, pred)
         IN  IF Satisfies(hp[Head(es)], pred) THEN <<Head(es)>> \o rest ELSE rest

\* EntityManager::find_entities_in_group
find_entities_in_group(egs, hp, entity_group, pred) ==
    LET entity_group_ptr == get_entity_group(egs, entity_group)
    IN  IF entity_group_ptr # NullGroup
        THEN [tag |-> "vector", val |-> Filter(egs[entity_group_ptr].entities, hp, pred)]
        ELSE [tag |-> "nullptr", val |-> <<>>]

\* EntityManager::find_entity: the first entity of the group satisfying pred
find_entity(egs, hp, entity_group, pred) ==
    LET entity_group_ptr == get_entity_group(egs, entity_group)
    IN  IF entity_group_ptr # NullGroup
        THEN LET es == egs[entity_group_ptr].entities
                 k  == FirstWhere(es, LAMBDA h : Satisfies(hp[h], pred))
             IN  IF k # 0 THEN es[k] ELSE NullEntity
        ELSE NullEntity

get_entity_by_name(egs, hp, entity_group, entity_name) ==
    find_entity(egs, hp, entity_group, [kind |-> "name", name |-> entity_name, id |-> 0])

\* The state after EntityManager's constructor
RegInit ==
    /\ entity_groups = <<>>
    /\ heap = <<>>
    /\ lua_entities = [g \in GroupNames |-> [valid |-> FALSE, keys |-> {}]]
    /\ nextId = 1
    /\ reg_call = [op |-> "none"]
    /\ reg_ret = [tag |-> "none"]

Void == [tag |-> "void"]

\* A new Entity(name) with no component, placed at the end of the heap
NewEntity(hp, name, next) ==
    Append(hp, [id |-> generate_uuid(next).id, name |-> name, components |-> <<>>])

\* A new Entity(name) holding one LuaComponent("lua component", props)
NewLuaEntity(hp, name, props, next) ==
    Append(hp, [id |-> generate_uuid(next).id, name |-> name,
                components |-> <<[id |-> generate_uuid(next + 1).id,
                                 name |-> "lua component",
                                 properties |-> props]>>])

\* create_entity_group(group_name)
CallCreateEntityGroup ==
    \E g \in GroupNames :
        /\ Len(entity_groups) < MaxGroups
        /\ entity_groups' = create_entity_group(entity_groups, g)
        /\ reg_call' = [op |-> "create_entity_group", group |-> g]
        /\ reg_ret' = [tag |-> "group", val |-> Len(entity_groups')]
        /\ UNCHANGED <<heap, lua_entities, nextId>>

\* May a call append to the group named g (a bound of the model only)?
RoomIn(g) ==
    LET i == get_entity_group(entity_groups, g)
    IN  IF i = NullGroup
        THEN Len(entity_groups) < MaxGroups
        ELSE Len(entity_groups[i].entities) < MaxGroupSize

\* The script function add_entity(group_name, name, components), while the
\* two ids it draws are at most limit
AddEntity(limit) ==
    \E g \in GroupNames, n \in EntityNames, props \in PropertyTables :
        /\ nextId + 1 <= limit
        /\ RoomIn(g)
        /\ heap' = NewLuaEntity(heap, n, props, nextId)
        /\ nextId' = nextId + 2
        /\ LET r == add_entity_to_group(entity_groups, lua_entities, heap', g, Len(heap'))
           IN  /\ entity_groups' = r.entity_groups
               /\ lua_entities' = r.lua_entities
        /\ reg_call' = [op |-> "add_entity_to_group", group |-> g, entity |-> Len(heap')]
        /\ reg_ret' = Void

CallAddEntity == AddEntity(MaxId)

\* add_entity_to_group(group_name, e) on an entity the caller holds: one
\* without components made by Entity(name), or one already in the registry
CallAddEntityToGroup ==
    \E g \in GroupNames :
        /\ RoomIn(g)
        /\ \/ \E n \in EntityNames :
                  /\ nextId <= MaxId
                  /\ heap' = NewEntity(heap, n, nextId)
                  /\ nextId' = nextId + 1
           \/ /\ heap # <<>>
              /\ UNCHANGED <<heap, nextId>>
        /\ \E e \in 1..Len(heap') :
               /\ (heap' # heap => e = Len(heap'))
               /\ LET r == add_entity_to_group(entity_groups, lua_entities, heap', g, e)
                  IN  /\ entity_groups' = r.entity_groups
                      /\ lua_entities' = r.lua_entities
               /\ reg_call' = [op |-> "add_entity_to_group", group |-> g, entity |-> e]
        /\ reg_ret' = Void

\* create_entity_in_group(group_name, entity_name): the entity is constructed
\* before the group is looked up
CallCreateEntityInGroup ==
    \E g \in GroupNames, n \in EntityNames :
        /\ nextId <= MaxId
        /\ LET entity_group == get_entity_group(entity_groups, g)
           IN  /\ entity_group # NullGroup =>
                      Len(entity_groups[entity_group].entities) < MaxGroupSize
               /\ heap' = NewEntity(heap, n, nextId)
               /\ nextId' = nextId + 1
               /\ IF entity_group # NullGroup
                  THEN /\ entity_groups' =
                              [entity_groups EXCEPT ![entity_group].entities =
                                   Append(@, Len(heap'))]
                       /\ reg_ret' = [tag |-> "entity", val |-> Len(heap')]
                  ELSE /\ UNCHANGED entity_groups
                       /\ reg_ret' = [tag |-> "nullptr", val |-> NullEntity]
        /\ reg_call' = [op |-> "create_entity_in_group", group |-> g, name |-> n]
        /\ UNCHANGED lua_entities

\* remove_entity(entity_group_name, entity_id), the id one of ids
RemoveEntity(ids) ==
    \E g \in GroupNames, id \in ids :
        /\ LET r == remove_entity(entity_groups, lua_entities, heap, g, id)
           IN  /\ entity_groups' = r.entity_groups
               /\ lua_entities' = r.lua_entities
               /\ reg_ret' = IF r.threw THEN [tag |-> "throw"] ELSE Void
        /\ reg_call' = [op |-> "remove_entity", group |-> g, id |-> id]
        /\ UNCHANGED <<heap, nextId>>

CallRemoveEntity == RemoveEntity(1..MaxId)

\* find_entities_in_group(entity_group, predicate)
CallFindEntitiesInGroup ==
    \E g \in GroupNames, pred \in Predicates :
        /\ reg_call' = [op |-> "find_entities_in_group", group |-> g, predicate |-> pred]
        /\ reg_ret' = find_entities_in_group(entity_groups, heap, g, pred)
        /\ UNCHANGED <<entity_groups, heap, lua_entities, nextId>>

RegNext ==
    \/ CallCreateEntityGroup /\ UNCHANGED <<astar_vars, ca_vars, game_vars, eng_vars>>
    \/ CallAddEntity /\ UNCHANGED <<astar_vars, ca_vars, game_vars, eng_vars>>
    \/ CallAddEntityToGroup /\ UNCHANGED <<astar_vars, ca_vars, game_vars, eng_vars>>
    \/ CallCreateEntityInGroup /\ UNCHANGED <<astar_vars, ca_vars, game_vars, eng_vars>>
    \/ CallRemoveEntity /\ UNCHANGED <<astar_vars, ca_vars, game_vars, eng_vars>>
    \/ CallFindEntitiesInGroup /\ UNCHANGED <<astar_vars, ca_vars, game_vars, eng_vars>>

\* ------------------------------------------------------------------------
\* Claims about the registry
\* ------------------------------------------------------------------------
GroupsNamed(egs, g) == {i \in 1..Len(egs) : egs[i].name = g}

NoTwoGroupsShareAName(egs) ==
    \A i, j \in 1..Len(egs) : egs[i].name = egs[j].name => i = j

\* C6: add_entity_to_group on a name no group has creates exactly one group
\* of that name, holding the entity; on a name some group has it appends the
\* entity to the first group of that name and creates no group; every other
\* group is left as it was.  So the call keeps group names distinct, and the
\* registry starts without groups: calls of add_entity_to_group alone never
\* make two groups share a name.
C6_AddCreatesGroupOnce ==
    [][reg_call'.op = "add_entity_to_group" =>
        LET g     == reg_call'.group
            e     == reg_call'.entity
            first == get_entity_group(entity_groups, g)
        IN  /\ first = NullGroup =>
                   entity_groups' =
                       Append(entity_groups, [name |-> g, entities |-> <<e>>])
            /\ first # NullGroup =>
                   entity_groups' =
                       [entity_groups EXCEPT ![first].entities = Append(@, e)]
            /\ Cardinality(GroupsNamed(entity_groups', g)) =
                   IF first = NullGroup THEN 1
                   ELSE Cardinality(GroupsNamed(entity_groups, g))
            /\ NoTwoGroupsShareAName(entity_groups) =>
                   NoTwoGroupsShareAName(entity_groups')]_vars

\* An add has made the group "items" and another has appended to it
C6_Witness ==
    /\ reg_call.op = "add_entity_to_group"
    /\ reg_call.group = "items"
    /\ \E i \in 1..Len(entity_groups) :
           /\ entity_groups[i].name = "items"
           /\ Len(entity_groups[i].entities) = 2
    /\ lua_entities["items"].valid

\* The registry remove_entity(g, id) is to leave behind
AfterRemove(egs, hp, g, id) ==
    LET gi == get_entity_group(egs, g)
    IN  IF gi = NullGroup
        THEN egs
        ELSE LET k == FirstWhere(egs[gi].entities, LAMBDA h : hp[h].id = id)
             IN  IF k = 0 THEN egs
                 ELSE [egs EXCEPT ![gi].entities = Erase(@, k)]

\* C7: remove_entity(group_name, id) removes exactly the first entity of that
\* group whose id is id, leaving the other entities and groups as they were;
\* with the group absent or no such entity, the registry is unchanged.
C7_RemoveTakesFirstMatch ==
    [][reg_call'.op = "remove_entity" =>
        /\ entity_groups' =
               AfterRemove(entity_groups, heap, reg_call'.group, reg_call'.id)
        /\ heap' = heap]_vars

\* C8: find_entities_in_group returns a sequence in every case: the entities
\* of the group that satisfy the predicate, in group order; the empty sequence
\* when the group is absent or nothing matches; never an absent result.
C8_FindAlwaysReturnsSequence ==
    reg_call.op = "find_entities_in_group" =>
        /\ reg_ret.tag = "vector"
        /\ LET gi == get_entity_group(entity_groups, reg_call.group)
           IN  reg_ret.val =
                   IF gi = NullGroup THEN <<>>
                   ELSE Filter(entity_groups[gi].entities, heap, reg_call.predicate)

\* The places (group, position) at which the registry lists entity e
PlacesOf(egs, e) ==
    {p \in (1..Len(egs)) \X (1..MaxGroupSize) :
         p[2] <= Len(egs[p[1]].entities) /\ egs[p[1]].entities[p[2]] = e}

\* C13: after any sequence of create_entity_group, add_entity_to_group,
\* create_entity_in_group and remove_entity, every entity of the registry is
\* in exactly one group and is listed once in that group.
C13_EntityInExactlyOneGroup ==
    \A g \in 1..Len(entity_groups) :
        \A k \in 1..Len(entity_groups[g].entities) :
            PlacesOf(entity_groups, entity_groups[g].entities[k]) = {<<g, k>>}

\* ------------------------------------------------------------------------
\* The script's entity table (engine.cpp): add_entity and remove_entity alone
\* ------------------------------------------------------------------------
ScriptAddEntity == AddEntity(MaxScriptId)

ScriptRemoveEntity == RemoveEntity(1..MaxScriptId)

ScriptEntitiesNext ==
    \/ ScriptAddEntity /\ UNCHANGED <<astar_vars, ca_vars, game_vars, eng_vars>>
    \/ ScriptRemoveEntity /\ UNCHANGED <<astar_vars, ca_vars, game_vars, eng_vars>>

\* The keys scripts see under lua_entities[g]; a nil entry shows none
KeysSeen(g) == IF lua_entities[g].valid THEN lua_entities[g].keys ELSE {}

\* The strings name-id of the entities the registry lists under the name g
NamesListed(g) ==
    UNION { {full_name(heap[entity_groups[i].entities[k]]) :
                 k \in 1..Len(entity_groups[i].entities)} :
            i \in GroupsNamed(entity_groups, g) }

\* C30: after any sequence of add_entity and remove_entity, for every group
\* name the keys of lua_entities[group] are exactly the strings name-id of the
\* entities now in that group: a removed entity is no longer visible to
\* scripts and an added one is.
C30_TableInStepWithRegistry ==
    \A g \in GroupNames : KeysSeen(g) = NamesListed(g)

\* remove_entity has just removed one of two entities of the group "mobs":
\* the other one is still listed and still seen
C30_Witness ==
    /\ reg_call.op = "remove_entity" /\ reg_call.group = "mobs"
    /\ reg_ret = Void
    /\ Cardinality(NamesListed("mobs")) = 1
    /\ KeysSeen("mobs") = NamesListed("mobs")
    /\ \E h \in 1..Len(heap) :
           /\ heap[h].id = reg_call.id
           /\ full_name(heap[h]) \notin KeysSeen("mobs")
           /\ \A i \in 1..Len(entity_groups) :
                  \A k \in 1..Len(entity_groups[i].entities) :
                      entity_groups[i].entities[k] # h

\* ------------------------------------------------------------------------
\* Queries of the registry (engine.cpp): get_entity_group,
\* get_entities_in_group, find_entity, get_entity_by_name, get_entity_by_id,
\* get_lua_blocked_points
\* ------------------------------------------------------------------------
\* EntityManager::get_entities_in_group
get_entities_in_group(egs, group_name) ==
    LET entity_group == get_entity_group(egs, group_name)
    IN  IF entity_group # NullGroup
        THEN [tag |-> "vector", val |-> egs[entity_group].entities]
        ELSE [tag |-> "nullptr", val |-> <<>>]

\* EntityManager::get_entity_by_id
get_entity_by_id(egs, hp, entity_group, entity_id) ==
    find_entity(egs, hp, entity_group, [kind |-> "id", name |-> "", id |-> entity_id])

Directions == {"up", "down", "left", "right"}

\* The points scripts ask about
QueryCoords == 0..2

\* The test of get_lua_blocked_points on one entity: it has a LuaComponent
\* with a position_component that lies next to (x, y) in the direction
BlocksPoint(e, x, y, direction) ==
    /\ find_first_component_by_type(e) # 0
    /\ HasKey(e.components[1].properties, "position_component")
    /\ LET position_component == e.components[1].properties["position_component"]
           entity_x == position_component["x"]
           entity_y == position_component["y"]
       IN  \/ direction = "up" /\ entity_x = x /\ y - 1 = entity_y
           \/ direction = "down" /\ entity_x = x /\ entity_y = y + 1
           \/ direction = "left" /\ entity_x = x - 1 /\ entity_y = y
           \/ direction = "right" /\ entity_x = x + 1 /\ entity_y = y

\* EntityManager::get_lua_blocked_points with eg pointing to a group: the
\* table describes the first blocking entity of the group (val), or is empty
get_lua_blocked_points(egs, hp, eg, x, y, direction) ==
    LET es == egs[eg].entities
        k  == FirstWhere(es, LAMBDA h : BlocksPoint(hp[h], x, y, direction))
    IN  [tag |-> "table", val |-> IF k # 0 THEN es[k] ELSE NullEntity]

\* What the loop over *eg->entities may do when eg is nullptr
NullGroupOutcomes(hp) ==
    {[tag |-> "crash", val |-> NullEntity]} \cup
    {[tag |-> "table", val |-> e] : e \in {NullEntity} \cup (1..Len(hp))}

\* get_entity_group(group_name)
CallGetEntityGroup ==
    \E g \in GroupNames :
        /\ reg_call' = [op |-> "get_entity_group", group |-> g]
        /\ reg_ret' = LET eg == get_entity_group(entity_groups, g)
                      IN  IF eg = NullGroup
                          THEN [tag |-> "nullptr", val |-> NullGroup]
                          ELSE [tag |-> "group", val |-> eg]
        /\ UNCHANGED <<entity_groups, heap, lua_entities, nextId>>

\* get_entities_in_group(group_name)
CallGetEntitiesInGroup ==
    \E g \in GroupNames :
        /\ reg_call' = [op |-> "get_entities_in_group", group |-> g]
        /\ reg_ret' = get_entities_in_group(entity_groups, g)
        /\ UNCHANGED <<entity_groups, heap, lua_entities, nextId>>

\* find_entity(entity_group, predicate), as get_entity_by_name and
\* get_entity_by_id call it
CallFindEntity ==
    \E g \in GroupNames :
        /\ \/ \E n \in EntityNames :
                  /\ reg_call' = [op |-> "get_entity_by_name", group |-> g, name |-> n]
                  /\ reg_ret' = LET e == get_entity_by_name(entity_groups, heap, g, n)
                                IN  IF e = NullEntity
                                    THEN [tag |-> "nullptr", val |-> NullEntity]
                                    ELSE [tag |-> "entity", val |-> e]
           \/ \E id \in 1..MaxId :
                  /\ reg_call' = [op |-> "get_entity_by_id", group |-> g, id |-> id]
                  /\ reg_ret' = LET e == get_entity_by_id(entity_groups, heap, g, id)
                                IN  IF e = NullEntity
                                    THEN [tag |-> "nullptr", val |-> NullEntity]
                                    ELSE [tag |-> "entity", val |-> e]
        /\ UNCHANGED <<entity_groups, heap, lua_entities, nextId>>

\* get_lua_blocked_points(entity_group, x, y, direction)
CallGetLuaBlockedPoints ==
    \E g \in GroupNames, x \in QueryCoords, y \in QueryCoords, direction \in Directions :
        /\ reg_call' = [op |-> "get_lua_blocked_points", group |-> g,
                        x |-> x, y |-> y, direction |-> direction]
        /\ LET eg == get_entity_group(entity_groups, g)
           IN  IF eg = NullGroup
               THEN reg_ret' \in NullGroupOutcomes(heap)
               ELSE reg_ret' = get_lua_blocked_points(entity_groups, heap, eg, x, y, direction)
        /\ UNCHANGED <<entity_groups, heap, lua_entities, nextId>>

QueryNext ==
    \/ CallCreateEntityGroup /\ UNCHANGED <<astar_vars, ca_vars, game_vars, eng_vars>>
    \/ CallAddEntity /\ UNCHANGED <<astar_vars, ca_vars, game_vars, eng_vars>>
    \/ CallGetEntityGroup /\ UNCHANGED <<astar_vars, ca_vars, game_vars, eng_vars>>
    \/ CallGetEntitiesInGroup /\ UNCHANGED <<astar_vars, ca_vars, game_vars, eng_vars>>
    \/ CallFindEntity /\ UNCHANGED <<astar_vars, ca_vars, game_vars, eng_vars>>
    \/ CallGetLuaBlockedPoints /\ UNCHANGED <<astar_vars, ca_vars, game_vars, eng_vars>>

QueryOps ==
    {"get_entity_group", "get_entities_in_group", "get_entity_by_name",
     "get_entity_by_id", "get_lua_blocked_points"}

\* C11: every query on a group name that no group has returns an absent or
\* empty result (no group, no sequence, no entity, an empty table) and never
\* fails: get_entity_group, get_entities_in_group, find_entity through
\* get_entity_by_name and get_entity_by_id, and get_lua_blocked_points.
C11_UnknownGroupIsNonFatal ==
    (reg_call.op \in QueryOps /\
     get_entity_group(entity_groups, reg_call.group) = NullGroup) =>
        \/ reg_ret.tag = "nullptr"
        \/ reg_ret.tag = "table" /\ reg_ret.val = NullEntity

\* ------------------------------------------------------------------------
\* Script functions get_component_value / set_component_value (engine.cpp,
\* setup_lua_api) over LuaComponent::get_property (engine.h)
\* ------------------------------------------------------------------------
\* LuaComponent::get_property<sol::table>(name): throws std::runtime_error
\* ("Property does not exist") when the property table has no such entry
get_property(properties, name) ==
    IF HasKey(properties, name)
    THEN [threw |-> FALSE, value |-> properties[name]]
    ELSE [threw |-> TRUE, value |-> EmptyTable]

\* What the lambda get_component_value returns
lua_get_component_value(egs, hp, entity_group_name, entity_name, component_name, key) ==
    LET entity == get_entity_by_name(egs, hp, entity_group_name, entity_name)
    IN  IF entity = NullEntity
        THEN [tag |-> "empty_table"]
        ELSE LET component == find_first_component_by_type(hp[entity])
             IN  IF component = 0
                 THEN [tag |-> "empty_table"]
                 ELSE LET p == get_property(hp[entity].components[component].properties,
                                            component_name)
                      IN  IF p.threw
                          THEN [tag |-> "throw"]
                          ELSE IF HasKey(p.value, key)
                          THEN [tag |-> "value", val |-> p.value[key]]
                          ELSE [tag |-> "nil"]

\* What the lambda set_component_value does: [threw, heap]
lua_set_component_value(egs, hp, entity_group_name, entity_name, component_name, key, value) ==
    LET entity == get_entity_by_name(egs, hp, entity_group_name, entity_name)
    IN  IF entity = NullEntity
        THEN [threw |-> FALSE, heap |-> hp]
        ELSE LET component == find_first_component_by_type(hp[entity])
             IN  IF component = 0
                 THEN [threw |-> FALSE, heap |-> hp]
                 ELSE LET props == hp[entity].components[component].properties
                          p == get_property(props, component_name)
                      IN  IF p.threw
                          THEN [threw |-> TRUE, heap |-> hp]
                          ELSE [threw |-> FALSE,
                                heap |-> [hp EXCEPT ![entity].components[component].properties =
                                             TableSet(props, component_name,
                                                      TableSet(p.value, key, value))]]

CallGetComponentValue ==
    \E g \in GroupNames, n \in EntityNames, c \in ComponentNames, k \in Keys :
        /\ reg_call' = [op |-> "get_component_value", group |-> g, name |-> n,
                        component |-> c, key |-> k]
        /\ reg_ret' = lua_get_component_value(entity_groups, heap, g, n, c, k)
        /\ UNCHANGED <<entity_groups, heap, lua_entities, nextId>>

CallSetComponentValue ==
    \E g \in GroupNames, n \in EntityNames, c \in ComponentNames, k \in Keys, v \in Values :
        /\ LET r == lua_set_component_value(entity_groups, heap, g, n, c, k, v)
           IN  /\ heap' = r.heap
               /\ reg_ret' = IF r.threw THEN [tag |-> "throw"] ELSE Void
        /\ reg_call' = [op |-> "set_component_value", group |-> g, name |-> n,
                        component |-> c, key |-> k]
        /\ UNCHANGED <<entity_groups, lua_entities, nextId>>

ScriptNext ==
    \/ CallAddEntity /\ UNCHANGED <<astar_vars, ca_vars, game_vars, eng_vars>>
    \/ CallAddEntityToGroup /\ UNCHANGED <<astar_vars, ca_vars, game_vars, eng_vars>>
    \/ CallGetComponentValue /\ UNCHANGED <<astar_vars, ca_vars, game_vars, eng_vars>>
    \/ CallSetComponentValue /\ UNCHANGED <<astar_vars, ca_vars, game_vars, eng_vars>>

\* The entity a script call names has a property bag without the component
LacksComponent(egs, hp, g, n, c) ==
    LET entity == get_entity_by_name(egs, hp, g, n)
    IN  /\ entity # NullEntity
        /\ Len(hp[entity].components) > 0
        /\ ~HasKey(hp[entity].components[1].properties, c)

\* C10: generic component access never throws; on an existing entity whose
\* property bag lacks the requested component, get_component_value returns
\* its not-found result (the empty table it returns for an unknown entity)
\* and set_component_value leaves all state unchanged.
C10_UnknownComponentNeverThrows ==
    [][reg_call'.op \in {"get_component_value", "set_component_value"} =>
        /\ reg_ret'.tag # "throw"
        /\ LacksComponent(entity_groups, heap, reg_call'.group, reg_call'.name,
                          reg_call'.component) =>
               /\ reg_call'.op = "get_component_value" => reg_ret'.tag = "empty_table"
               /\ <<entity_groups, heap, lua_entities>>' =
                      <<entity_groups, heap, lua_entities>>]_vars

\* ------------------------------------------------------------------------
\* Engine maps (engine.h, engine.cpp): maps, current_map_info, the script
\* functions generate_map and set_map
\* ------------------------------------------------------------------------
\* nullptr for a std::shared_ptr<Map>; the maps of an engine are numbered from 1
NullMap == 0

MapNames == {"A", "B"}

\* Map::Map(n, w, h, m): the light map starts as an h x w matrix of zeros
Map(n, w, h, m) ==
    [name |-> n, width |-> w, height |-> h, map |-> m,
     light_map |-> GenericMatrix(h, w, 0)]

\* The matrix init_cellular_automata(map_width, map_height) fills from the
\* draws z
SeededMatrix(map_width_, map_height_, z) ==
    [nr |-> map_height_, nc |-> map_width_,
     rows |-> [p \in Cells(map_height_, map_width_) |-> SeedCell(z[p])]]

\* Engine::generate_map(name, map_width, map_height), with the draws z
generate_map(name, map_width_, map_height_, z) ==
    Map(name, map_width_, map_height_,
        perform_cellular_automaton(SeededMatrix(map_width_, map_height_, z),
                                   map_width_, map_height_, 10))

\* Engine::find_map(name): the iterator std::find_if returns is not used, the
\* function returns nullptr for every name
find_map(ms, name) == NullMap

\* No call of get_random_point_on_map is under way
SearchIdle ==
    /\ search_pc = "idle"
    /\ attempts = 0
    /\ found_point = [x |-> 0, y |-> 0]

\* The threads of the model
MaxThreads == 2

Threads == 1..MaxThreads

\* gen_mut is free (0 stands for no holder), the generators are seeded, no
\* thread is in a call
RngInit ==
    /\ gen_mut = 0
    /\ gen_mt = 0
    /\ rand_next = 0
    /\ thread_pc = [t \in Threads |-> "idle"]
    /\ thread_ret = [t \in Threads |-> 0]

\* A Dimension{} (engine.h): every member zero
ZeroDimension ==
    [point |-> [x |-> 0, y |-> 0],
     supplemental_point |-> [x |-> 0, y |-> 0],
     size |-> [width |-> 0, height |-> 0]]

\* A new Map: current_map_segment_dimension{} and no segment texture
DrawIdle ==
    /\ current_map_segment_dimension = ZeroDimension
    /\ current_map_segment_texture = [null |-> TRUE, dim |-> ZeroDimension, whole |-> FALSE]
    /\ draw_call = [op |-> "none"]
    /\ draw_ret = [tag |-> "none", rebuilt |-> FALSE]
    /\ draw_hist = [built |-> FALSE, dim |-> ZeroDimension, requested |-> FALSE]

\* No system is registered and game_loop has not been entered
LoopIdle ==
    /\ systems = {}
    /\ loop_pc = "idle"
    /\ frame_log = <<>>
    /\ to_visit = {}
    /\ quit = FALSE
    /\ polled = 0
    /\ elapsed = 0

MaxConstructors == 3

Constructors == 1..MaxConstructors

\* instance_ctr{0}: no Engine has been constructed
InstIdle ==
    /\ instance_ctr = 0
    /\ ctor_pc = [t \in Constructors |-> "none"]
    /\ ctor_seen = [t \in Constructors |-> 0]
    /\ ctor_met = [t \in Constructors |-> FALSE]

SideIdle == DrawIdle /\ LoopIdle /\ InstIdle

\* The state of a new Engine, before init_sdl has read the configuration
EngineInit ==
    /\ maps = <<>>
    /\ current_map_info = [name |-> "", map |-> NullMap]
    /\ VIEW_PORT_WIDTH = 0 /\ VIEW_PORT_HEIGHT = 0
    /\ view_port_x = 0 /\ view_port_y = 0
    /\ view_port_width = 0 /\ view_port_height = 0
    /\ current_dimension =
           [point |-> [x |-> 0, y |-> 0],
            supplemental_point |-> [x |-> 0, y |-> 0],
            size |-> [width |-> 0, height |-> 0]]
    /\ eng_call = [op |-> "none"]
    /\ eng_ret = [tag |-> "none"]
    /\ view_updates = 0
    /\ SearchIdle
    /\ RngInit
    /\ SideIdle

\* The script function generate_map(name, map_width, map_height)
CallGenerateMap ==
    \E name \in MapNames, w \in 1..MaxGenWidth, h \in 1..MaxGenHeight :
        \E z \in DrawSequences(Cells(h, w)) :
            /\ Len(maps) < MaxMaps
            /\ maps' = Append(maps, generate_map(name, w, h, z))
            /\ current_map_info' = [name |-> name, map |-> Len(maps')]
            /\ eng_call' = [op |-> "generate_map", name |-> name]
            /\ eng_ret' = [tag |-> "void"]
            /\ UNCHANGED <<VIEW_PORT_WIDTH, VIEW_PORT_HEIGHT, view_port_x, view_port_y,
                           view_port_width, view_port_height, current_dimension,
                           view_updates, search_vars, rng_vars, side_vars>>

\* The script function set_map(name)
CallSetMap ==
    \E name \in MapNames :
        /\ LET m == find_map(maps, name)
           IN  current_map_info' =
                   IF m # NullMap THEN [name |-> name, map |-> m] ELSE current_map_info
        /\ eng_call' = [op |-> "set_map", name |-> name]
        /\ eng_ret' = [tag |-> "void"]
        /\ UNCHANGED <<maps, VIEW_PORT_WIDTH, VIEW_PORT_HEIGHT, view_port_x, view_port_y,
                       view_port_width, view_port_height, current_dimension,
                       view_updates, search_vars, rng_vars, side_vars>>

MapsNext ==
    \/ CallGenerateMap /\ UNCHANGED <<astar_vars, ca_vars, reg_vars, game_vars>>
    \/ CallSetMap /\ UNCHANGED <<astar_vars, ca_vars, reg_vars, game_vars>>

\* The first registered map of that name, NullMap when none has it
RegisteredMap(ms, name) ==
    IF \E i \in 1..Len(ms) : ms[i].name = name
    THEN CHOOSE i \in 1..Len(ms) :
             ms[i].name = name /\ \A j \in 1..(i - 1) : ms[j].name # name
    ELSE NullMap

\* C17: set_map(name) makes the registered map of that name the current map;
\* for a name no registered map has, the current map stays as it was.
C17_SetMapSelectsByName ==
    [][eng_call'.op = "set_map" =>
        LET m == RegisteredMap(maps, eng_call'.name)
        IN  current_map_info' =
                IF m # NullMap
                THEN [name |-> eng_call'.name, map |-> m]
                ELSE current_map_info]_vars

\* ------------------------------------------------------------------------
\* Field of view (engine.cpp): Map::calculate_field_of_view, and the viewport
\* Engine::update_player_viewport that calls it
\* ------------------------------------------------------------------------
\* The floats dx, dy, newX and newY are fixed-point numbers here, in units of
\* 1/FScale; the rounding of the float additions is not followed
FScale == 100000000

\* std::cos(angle * 0.01745329f) for angle = 0..359, as floats, in units of 1/FScale
CosTable ==
    << 100000000, 99984771, 99939084, 99862951, 99756408, 99619472, 99452192, 99254614,
       99026805, 98768836, 98480773, 98162717, 97814763, 97437006, 97029573, 96592581,
       96126169, 95630479, 95105654, 94551861, 93969262, 93358046, 92718387, 92050487,
       91354549, 90630782, 89879405, 89100653, 88294762, 87461972, 86602545, 85716736,
       84804815, 83867061, 82903761, 81915206, 80901706, 79863554, 78801078, 77714604,
       76604450, 75470960, 74314487, 73135376, 71933985, 70710683, 69465840, 68199843,
       66913068, 65605909, 64278769, 62932044, 61566156, 60181510, 58778530, 57357657,
       55919302, 54463911, 52991939, 51503819, 50000006, 48480967, 46947172, 45399064,
       43837127, 42261836, 40673673, 39073130, 37460676, 35836810, 34202027, 32556826,
       30901718, 29237187, 27563751, 25881919, 24192202, 22495115, 20791189, 19080918,
       17364834, 15643460, 13917322, 12186956, 10452866, 8715592, 6975663, 5233609,
       3489961, 1745262, 19, -1745223, -3489934, -5233582, -6975624, -8715553,
       -10452827, -12186918, -13917296, -15643422, -17364796, -19080879, -20791151, -22495089,
       -24192163, -25881881, -27563715, -29237151, -30901682, -32556799, -34201989, -35836771,
       -37460640, -39073095, -40673646, -42261812, -43837091, -45399040, -46947137, -48480934,
       -49999985, -51503783, -52991915, -54463881, -55919260, -57357627, -58778501, -60181493,
       -61566126, -62932014, -64278746, -65605879, -66913050, -68199813, -69465810, -70710659,
       -71933955, -73135358, -74314463, -75470930, -76604426, -77714574, -78801060, -79863530,
       -80901676, -81915188, -82903737, -83867043, -84804791, -85716718, -86602527, -87461954,
       -88294750, -89100635, -89879394, -90630764, -91354531, -92050475, -92718375, -93358034,
       -93969250, -94551843, -95105642, -95630467, -96126163, -96592575, -97029561, -97437000,
       -97814751, -98162711, -98480767, -98768824, -99026805, -99254608, -99452186, -99619466,
       -99756402, -99862951, -99939084, -99984771, -100000000, -99984771, -99939084, -99862957,
       -99756408, -99619472, -99452192, -99254620, -99026811, -98768836, -98480785, -98162723,
       -97814769, -97437018, -97029579, -96592593, -96126181, -95630485, -95105666, -94551867,
       -93969280, -93358052, -92718399, -92050505, -91354561, -90630800, -89879417, -89100671,
       -88294786, -87461990, -86602563, -85716748, -84804833, -83867073, -82903779, -81915236,
       -80901724, -79863578, -78801095, -77714622, -76604480, -75470984, -74314517, -73135394,
       -71934009, -70710719, -69465864, -68199873, -66913086, -65605938, -64278787, -62932074,
       -61566186, -60181552, -58778542, -57357669, -55919325, -54463947, -52991980, -51503831,
       -50000030, -48481002, -46947205, -45399109, -43837139, -42261860, -40673709, -39073166,
       -37460721, -35836822, -34202051, -32556862, -30901757, -29237238, -27563766, -25881943,
       -24192239, -22495165, -20791239, -19080932, -17364860, -15643498, -13917372, -12187006,
       -10452881, -8715619, -6975702, -5233660, -3490024, -1745277, -46, 1745184,
       3489884, 5233520, 6975609, 8715526, 10452788, 12186867, 13917233, 15643407,
       17364769, 19080840, 20791101, 22495028, 24192148, 25881854, 27563676, 29237103,
       30901623, 32556775, 34201965, 35836735, 37460592, 39073080, 40673622, 42261776,
       43837056, 45398983, 46947125, 48480922, 49999949, 51503748, 52991861, 54463869,
       55919248, 57357597, 58778471, 60181439, 61566114, 62932003, 64278716, 65605849,
       66913003, 68199807, 69465798, 70710635, 71933931, 73135316, 74314451, 75470924,
       76604402, 77714550, 78801024, 79863524, 80901664, 81915164, 82903713, 83867007,
       84804785, 85716701, 86602509, 87461931, 88294721, 89100629, 89879376, 90630752,
       91354513, 92050451, 92718369, 93358022, 93969238, 94551831, 95105624, 95630461,
       96126151, 96592563, 97029555, 97436988, 97814751, 98162705, 98480761, 98768818,
       99026799, 99254608, 99452180, 99619466, 99756402, 99862951, 99939078, 99984771 >>

\* std::sin(angle * 0.01745329f) for angle = 0..359, as floats, in units of 1/FScale
SinTable ==
    << 0, 1745240, 3489949, 5233595, 6975646, 8715573, 10452845, 12186933,
       13917309, 15643445, 17364816, 19080898, 20791167, 22495103, 24192187, 25881901,
       27563733, 29237166, 30901694, 32556814, 34202009, 35836789, 37460658, 39073110,
       40673661, 42261821, 43837109, 45399046, 46947151, 48480958, 49999997, 51503801,
       52991921, 54463899, 55919284, 57357639, 58778518, 60181499, 61566144, 62932032,
       64278758, 65605897, 66913050, 68199831, 69465834, 70710671, 71933973, 73135364,
       74314475, 75470954, 76604438, 77714592, 78801066, 79863542, 80901694, 81915200,
       82903749, 83867049, 84804803, 85716724, 86602539, 87461966, 88294750, 89100647,
       89879400, 90630776, 91354543, 92050481, 92718381, 93358040, 93969256, 94551855,
       95105648, 95630473, 96126163, 96592581, 97029567, 97437006, 97814757, 98162717,
       98480773, 98768830, 99026805, 99254614, 99452186, 99619466, 99756402, 99862951,
       99939084, 99984771, 100000000, 99984771, 99939084, 99862957, 99756408, 99619472,
       99452192, 99254620, 99026811, 98768836, 98480779, 98162723, 97814763, 97437012,
       97029579, 96592587, 96126175, 95630479, 95105660, 94551861, 93969274, 93358052,
       92718393, 92050493, 91354555, 90630788, 89879417, 89100659, 88294768, 87461984,
       86602551, 85716742, 84804815, 83867067, 82903779, 81915218, 80901718, 79863560,
       78801090, 77714616, 76604456, 75470978, 74314493, 73135388, 71934009, 70710695,
       69465864, 68199849, 66913080, 65605932, 64278781, 62932068, 61566162, 60181528,
       58778560, 57357663, 55919319, 54463923, 52991956, 51503825, 50000024, 48480996,
       46947178, 45399082, 43837133, 42261854, 40673700, 39073136, 37460694, 35836816,
       34202045, 32556856, 30901727, 29237208, 27563760, 25881937, 24192232, 22495134,
       20791207, 19080925, 17364852, 15643491, 13917342, 12186975, 10452873, 8715612,
       6975671, 5233629, 3489993, 1745270, 39, -1745216, -3489915, -5233551,
       -6975617, -8715533, -10452820, -12186898, -13917264, -15643415, -17364776, -19080871,
       -20791131, -22495058, -24192156, -25881863, -27563706, -29237133, -30901653, -32556781,
       -34201971, -35836765, -37460619, -39073065, -40673628, -42261782, -43837085, -45399010,
       -46947110, -48480928, -49999958, -51503778, -52991891, -54463875, -55919254, -57357603,
       -58778495, -60181463, -61566120, -62932009, -64278722, -65605873, -66913027, -68199813,
       -69465804, -70710641, -71933949, -73135334, -74314457, -75470930, -76604426, -77714568,
       -78801042, -79863513, -80901682, -81915182, -82903731, -83867025, -84804773, -85716718,
       -86602521, -87461948, -88294733, -89100623, -89879394, -90630764, -91354525, -92050463,
       -92718363, -93358034, -93969250, -94551843, -95105636, -95630455, -96126163, -96592569,
       -97029561, -97436994, -97814745, -98162711, -98480767, -98768824, -99026799, -99254608,
       -99452186, -99619466, -99756402, -99862951, -99939078, -99984771, -100000000, -99984771,
       -99939084, -99862957, -99756408, -99619472, -99452198, -99254626, -99026817, -98768842,
       -98480785, -98162729, -97814775, -97437024, -97029585, -96592593, -96126187, -95630497,
       -95105678, -94551873, -93969280, -93358064, -92718410, -92050499, -91354567, -90630800,
       -89879435, -89100689, -88294774, -87461996, -86602569, -85716766, -84804851, -83867079,
       -82903785, -81915236, -80901742, -79863596, -78801101, -77714628, -76604486, -75471002,
       -74314535, -73135400, -71934015, -70710725, -69465888, -68199897, -66913092, -65605944,
       -64278811, -62932098, -61566216, -60181540, -58778572, -57357699, -55919355, -54463977,
       -52991968, -51503855, -50000060, -48481029, -46947232, -45399094, -43837169, -42261890,
       -40673736, -39073196, -37460706, -35836852, -34202081, -32556891, -30901787, -29237220,
       -27563795, -25881976, -24192269, -22495195, -20791222, -19080962, -17364891, -15643530,
       -13917357, -12186990, -10452912, -8715650, -6975733, -5233644, -3490008, -1745309 >>

Angles == 0..359

\* The while loop of one ray from the point (newX, newY): the cells it marks.
\* (int)newX is newX \div FScale, the guard having made newX non-negative.
RECURSIVE RayCells(_, _, _, _, _)
RayCells(mp, newX, newY, dx_, dy_) ==
    IF newX >= 0 /\ newX < mp.width * FScale /\ newY >= 0 /\ newY < mp.height * FScale
    THEN LET r == newY \div FScale
             c == newX \div FScale
         IN  IF At(mp.map, r, c) = 0
             THEN {<<r, c>>}
             ELSE {<<r, c>>} \cup RayCells(mp, newX + dx_, newY + dy_, dx_, dy_)
    ELSE {}

\* The cells the ray of one angle marks, from the point (sx, sy)
RayOf(mp, sx, sy, angle) ==
    RayCells(mp, sx * FScale + CosTable[angle + 1], sy * FScale + SinTable[angle + 1],
             CosTable[angle + 1], SinTable[angle + 1])

\* A field of view that casts the four rays along the axes only
calculate_field_of_view_axes_only(mp, dimensions) ==
    LET sx  == dimensions.supplemental_point.x
        sy  == dimensions.supplemental_point.y
        lit == UNION {RayOf(mp, sx, sy, angle) : angle \in {0, 90, 180, 270}}
    IN  [mp EXCEPT !.light_map =
            [nr |-> mp.height, nc |-> mp.width,
             rows |-> [p \in Cells(mp.height, mp.width) |-> IF p \in lit THEN 1 ELSE 0]]]

\* A field of view that marks the cells of its rays in the light map it finds
calculate_field_of_view_keeping_light(mp, dimensions) ==
    LET sx  == dimensions.supplemental_point.x
        sy  == dimensions.supplemental_point.y
        lit == UNION {RayOf(mp, sx, sy, angle) : angle \in Angles}
    IN  [mp EXCEPT !.light_map =
            [nr |-> mp.height, nc |-> mp.width,
             rows |-> [p \in Cells(mp.height, mp.width) |->
                           IF p \in lit THEN 1 ELSE At(mp.light_map, p[1], p[2])]]]

\* Map::calculate_field_of_view(dimensions): a new light map of zeros, with 1
\* in every cell some ray marks
calculate_field_of_view(mp, dimensions) ==
    LET sx  == dimensions.supplemental_point.x
        sy  == dimensions.supplemental_point.y
        lit == UNION {RayOf(mp, sx, sy, angle) : angle \in Angles}
    IN  [mp EXCEPT !.light_map =
            [nr |-> mp.height, nc |-> mp.width,
             rows |-> [p \in Cells(mp.height, mp.width) |-> IF p \in lit THEN 1 ELSE 0]]]

\* std::clamp(v, lo, hi) where lo <= hi
clamp(v, lo, hi) == IF v < lo THEN lo ELSE IF hi < v THEN hi ELSE v

\* std::clamp(v, lo, hi) in every case.  With hi < lo the call has undefined
\* behaviour: a library with assertions aborts, one that tests the lower bound
\* first gives clamp(v, lo, hi), one that tests the upper bound first gives hi
\* whenever hi < v.
ClampOutcomes(v, lo, hi) ==
    IF lo <= hi
    THEN {[tag |-> "int", val |-> clamp(v, lo, hi)]}
    ELSE {[tag |-> "crash", val |-> 0],
          [tag |-> "int", val |-> clamp(v, lo, hi)],
          [tag |-> "int", val |-> IF hi < v THEN hi ELSE IF v < lo THEN lo ELSE v]}

\* The tracked points and viewport sizes of the model
TrackedXs == (-1)..MaxViewWidth

TrackedYs == (-1)..MaxViewHeight

ViewPorts == {<<2, 2>>, <<3, 2>>}

\* The maps of the model: every layout DrawSequences gives, in every size
ViewMaps ==
    UNION { { Map("A", w, h, SeededMatrix(w, h, z)) : z \in DrawSequences(Cells(h, w)) } :
                w \in 1..MaxViewWidth, h \in 1..MaxViewHeight }

\* An engine after init_sdl has set the viewport size and a map has been
\* made current
ViewInit ==
    /\ \E vp \in ViewPorts :
           /\ VIEW_PORT_WIDTH = vp[1]
           /\ VIEW_PORT_HEIGHT = vp[2]
           /\ current_dimension =
                  [point |-> [x |-> 0, y |-> 0],
                   supplemental_point |-> [x |-> 0, y |-> 0],
                   size |-> [width |-> vp[1], height |-> vp[2]]]
    /\ \E m \in ViewMaps : maps = <<m>>
    /\ current_map_info = [name |-> "A", map |-> 1]
    /\ view_port_x = 0 /\ view_port_y = 0
    /\ view_port_width = 0 /\ view_port_height = 0
    /\ eng_call = [op |-> "none"]
    /\ eng_ret = [tag |-> "none"]
    /\ view_updates = 0
    /\ SearchIdle
    /\ RngInit
    /\ SideIdle

\* The script function update_player_viewport(x, y, width, height) over
\* Engine::update_player_viewport
UpdatePlayerViewport(xs, ys, limit) ==
    \E x \in xs, y \in ys :
        /\ view_updates < limit
        /\ view_updates' = view_updates + 1
        /\ eng_call' = [op |-> "update_player_viewport", x |-> x, y |-> y]
        /\ IF current_map_info.map = NullMap
           THEN \* current_map_info.map->get_width() on nullptr
                /\ eng_ret' = [tag |-> "crash"]
                /\ UNCHANGED <<maps, view_port_x, view_port_y, view_port_width,
                               view_port_height, current_dimension>>
           ELSE LET cur == maps[current_map_info.map]
                IN  \E cx \in ClampOutcomes(x - (VIEW_PORT_WIDTH \div 2), 0,
                                            cur.width - VIEW_PORT_WIDTH),
                       cy \in ClampOutcomes(y - (VIEW_PORT_HEIGHT \div 2), 0,
                                            cur.height - VIEW_PORT_HEIGHT) :
                        IF cx.tag = "crash" \/ cy.tag = "crash"
                        THEN /\ eng_ret' = [tag |-> "crash"]
                             /\ UNCHANGED <<maps, view_port_x, view_port_y, view_port_width,
                                            view_port_height, current_dimension>>
                        ELSE LET dim == [point |-> [x |-> cx.val, y |-> cy.val],
                                         supplemental_point |-> [x |-> x, y |-> y],
                                         size |-> [width |-> cx.val + VIEW_PORT_WIDTH,
                                                   height |-> cy.val + VIEW_PORT_HEIGHT]]
                             IN  /\ view_port_x' = cx.val
                                 /\ view_port_y' = cy.val
                                 /\ view_port_width' = cx.val + VIEW_PORT_WIDTH
                                 /\ view_port_height' = cy.val + VIEW_PORT_HEIGHT
                                 /\ maps' = [maps EXCEPT ![current_map_info.map] =
                                                calculate_field_of_view(@, dim)]
                                 /\ current_dimension' = dim
                                 /\ eng_ret' = [tag |-> "void"]
        /\ UNCHANGED <<current_map_info, VIEW_PORT_WIDTH, VIEW_PORT_HEIGHT,
                       search_vars, rng_vars, side_vars>>

CallUpdatePlayerViewport == UpdatePlayerViewport(TrackedXs, TrackedYs, MaxViewUpdates)

ViewNext ==
    CallUpdatePlayerViewport /\ UNCHANGED <<astar_vars, ca_vars, reg_vars, game_vars>>

\* C14: update_player_viewport yields origin.x = clamp(tracked.x -
\* VIEW_PORT_WIDTH/2, 0, map.width - VIEW_PORT_WIDTH) and the same for y, for
\* every tracked point and every map size; so the origin is never negative
\* and never beyond map.width - VIEW_PORT_WIDTH, map.height - VIEW_PORT_HEIGHT.
C14_ViewportOriginClamped ==
    eng_call.op = "update_player_viewport" =>
        LET cur == maps[current_map_info.map]
        IN  /\ eng_ret.tag = "void"
            /\ view_port_x = clamp(eng_call.x - (VIEW_PORT_WIDTH \div 2), 0,
                                   cur.width - VIEW_PORT_WIDTH)
            /\ view_port_y = clamp(eng_call.y - (VIEW_PORT_HEIGHT \div 2), 0,
                                   cur.height - VIEW_PORT_HEIGHT)
            /\ view_port_x >= 0 /\ view_port_x <= cur.width - VIEW_PORT_WIDTH
            /\ view_port_y >= 0 /\ view_port_y <= cur.height - VIEW_PORT_HEIGHT

\* The last call computed a field of view from an origin inside the map
FovFromInside ==
    /\ eng_call.op = "update_player_viewport"
    /\ eng_ret.tag = "void"
    /\ LET cur == maps[current_map_info.map]
       IN  eng_call.x >= 0 /\ eng_call.x < cur.width /\
           eng_call.y >= 0 /\ eng_call.y < cur.height

\* C19: after a field-of-view computation from an origin inside the map the
\* origin cell is marked visible in the light map, whatever the walls around
\* it and wherever in the map it lies.
C19_OriginIsVisible ==
    FovFromInside =>
        At(maps[current_map_info.map].light_map, eng_call.y, eng_call.x) # 0

\* A field of view from the corner (0,0) of a 3 x 3 map, the origin a wall
\* with a wall next to it
C19_Witness ==
    /\ FovFromInside
    /\ eng_call.x = 0 /\ eng_call.y = 0
    /\ LET cur == maps[current_map_info.map]
       IN  /\ cur.width = 3 /\ cur.height = 3
           /\ At(cur.map, 0, 0) = 0 /\ At(cur.map, 0, 1) = 0
           /\ At(cur.map, 1, 1) = 1
           /\ At(cur.light_map, 0, 0) = 1

\* ------------------------------------------------------------------------
\* The viewport test (engine.h): is_within_viewport
\* ------------------------------------------------------------------------
\* A test that leaves out the first column and the first row of the viewport
is_within_viewport_strict(vx, vy, vw, vh, x, y) ==
    (x > vx /\ x <= vw - 1) /\ (y > vy /\ y <= vh - 1)

\* Engine::is_within_viewport(x, y), reading view_port_x, view_port_y,
\* view_port_width and view_port_height
is_within_viewport(vx, vy, vw, vh, x, y) ==
    (x >= vx /\ x <= vw - 1) /\ (y >= vy /\ y <= vh - 1)

\* An update has been made with the tracked point inside the current map and
\* the map at least as large as the viewport
UpdatedInsideLargeMap ==
    /\ eng_call.op = "update_player_viewport"
    /\ LET cur == maps[current_map_info.map]
       IN  /\ eng_call.x >= 0 /\ eng_call.x < cur.width
           /\ eng_call.y >= 0 /\ eng_call.y < cur.height
           /\ cur.width >= VIEW_PORT_WIDTH /\ VIEW_PORT_WIDTH >= 1
           /\ cur.height >= VIEW_PORT_HEIGHT /\ VIEW_PORT_HEIGHT >= 1

\* C28: after update_player_viewport with the tracked point inside the map,
\* map.width >= VIEW_PORT_WIDTH >= 1 and map.height >= VIEW_PORT_HEIGHT >= 1,
\* is_within_viewport(tracked.x, tracked.y) is true and the viewport rectangle
\* [origin, origin + extent - 1] lies inside the map; before any update
\* is_within_viewport is false for every point.
C28_TrackedPointInViewport ==
    /\ UpdatedInsideLargeMap =>
           LET cur == maps[current_map_info.map]
           IN  /\ eng_ret.tag = "void"
               /\ is_within_viewport(view_port_x, view_port_y, view_port_width,
                                     view_port_height, eng_call.x, eng_call.y)
               /\ view_port_x >= 0 /\ view_port_y >= 0
               /\ view_port_x + VIEW_PORT_WIDTH - 1 <= cur.width - 1
               /\ view_port_y + VIEW_PORT_HEIGHT - 1 <= cur.height - 1
               /\ view_port_width = view_port_x + VIEW_PORT_WIDTH
               /\ view_port_height = view_port_y + VIEW_PORT_HEIGHT
    /\ view_updates = 0 =>
           \A x \in TrackedXs, y \in TrackedYs :
               ~is_within_viewport(view_port_x, view_port_y, view_port_width,
                                   view_port_height, x, y)

\* The tracked point is the first cell of the viewport, at the near edges of
\* the map
C28_Witness ==
    /\ UpdatedInsideLargeMap
    /\ eng_call.x = 0 /\ eng_call.y = 0
    /\ VIEW_PORT_WIDTH = 2 /\ VIEW_PORT_HEIGHT = 2
    /\ maps[current_map_info.map].width = 3
    /\ maps[current_map_info.map].height = 3
    /\ view_port_x = 0 /\ view_port_y = 0
    /\ view_port_width = 2 /\ view_port_height = 2

\* ------------------------------------------------------------------------
\* Sequences of viewport updates (engine.cpp): update_player_viewport called
\* again and again on one map
\* ------------------------------------------------------------------------
MaxViewSeqUpdates == 2

\* The maps of the model: the widest and the next narrower, of full height
ViewSeqMaps ==
    UNION { { Map("A", w, MaxViewHeight, SeededMatrix(w, MaxViewHeight, z)) :
                  z \in DrawSequences(Cells(MaxViewHeight, w)) } :
                w \in (MaxViewWidth - 1)..MaxViewWidth }

\* An engine after init_sdl has set the viewport size and a map has been
\* made current
ViewSeqInit ==
    /\ \E vp \in ViewPorts :
           /\ VIEW_PORT_WIDTH = vp[1]
           /\ VIEW_PORT_HEIGHT = vp[2]
           /\ current_dimension =
                  [point |-> [x |-> 0, y |-> 0],
                   supplemental_point |-> [x |-> 0, y |-> 0],
                   size |-> [width |-> vp[1], height |-> vp[2]]]
    /\ \E m \in ViewSeqMaps : maps = <<m>>
    /\ current_map_info = [name |-> "A", map |-> 1]
    /\ view_port_x = 0 /\ view_port_y = 0
    /\ view_port_width = 0 /\ view_port_height = 0
    /\ eng_call = [op |-> "none"]
    /\ eng_ret = [tag |-> "none"]
    /\ view_updates = 0
    /\ SearchIdle
    /\ RngInit
    /\ SideIdle

\* update_player_viewport with a tracked point of the map
CallUpdatePlayerViewportAgain ==
    UpdatePlayerViewport(0..(MaxViewWidth - 1), 0..(MaxViewHeight - 1), MaxViewSeqUpdates)

ViewSeqNext ==
    CallUpdatePlayerViewportAgain /\ UNCHANGED <<astar_vars, ca_vars, reg_vars, game_vars>>

\* The light grid one field-of-view computation from the point (sx, sy) gives
\* on the wall grid of mp: 1 on the cells the rays mark, 0 elsewhere
LightFrom(mp, sx, sy) ==
    LET lit == UNION {RayOf(mp, sx, sy, angle) : angle \in Angles}
    IN  [nr |-> mp.height, nc |-> mp.width,
         rows |-> [p \in Cells(mp.height, mp.width) |-> IF p \in lit THEN 1 ELSE 0]]

\* C21: every viewport update made while a current map is set recomputes the
\* map's light grid from the new tracked point before the new Dimension is
\* stored: after any sequence of updates the light grid is the one of the
\* tracked point of the latest update.
C21_LightFollowsLatestUpdate ==
    (eng_call.op = "update_player_viewport" /\ current_map_info.map # NullMap) =>
        /\ current_dimension.supplemental_point = [x |-> eng_call.x, y |-> eng_call.y]
        /\ maps[current_map_info.map].light_map =
               LightFrom(maps[current_map_info.map], eng_call.x, eng_call.y)

\* The latest update has run the field of view, and it was not the first
FovRunAgain ==
    /\ eng_call.op = "update_player_viewport"
    /\ eng_ret.tag = "void"
    /\ view_updates >= 2

\* C25: the light grid keeps no memory between computations: after any
\* sequence of field-of-view calls it equals the grid a single call from the
\* last origin gives on the same wall grid; a cell no ray of the last call
\* reaches is 0 even if an earlier call had marked it.
C25_LightKeepsNoMemory ==
    (eng_call.op = "update_player_viewport" /\ eng_ret.tag = "void") =>
        LET cur == maps[current_map_info.map]
        IN  \A p \in Cells(cur.height, cur.width) :
                At(cur.light_map, p[1], p[2]) =
                    IF \E angle \in Angles : p \in RayOf(cur, eng_call.x, eng_call.y, angle)
                    THEN 1 ELSE 0

\* After a second computation a cell that a computation from another point of
\* the map marks, and the last one does not reach, is 0
C25_Witness ==
    /\ FovRunAgain
    /\ LET cur == maps[current_map_info.map]
       IN  /\ cur.width = 3 /\ cur.height = 3
           /\ eng_call.x = 0 /\ eng_call.y = 0
           /\ At(cur.map, 0, 0) = 0
           /\ At(cur.map, 2, 2) = 1 /\ At(cur.map, 1, 2) = 1
           /\ At(LightFrom(cur, 2, 1), 2, 2) = 1
           /\ At(cur.light_map, 2, 2) = 0

\* ------------------------------------------------------------------------
\* Game (Game.cpp): entity groups, typed components, get_component_value
\* ------------------------------------------------------------------------
\* Ids are given by the caller of Game::add_entity_to_group
GameIds == {"hero", "rat1"}

EntityTypes == {"Player", "Enemy"}

\* The names add_score_component, add_health_component, add_stats_component
\* and add_value_component give the components they make
GameComponentNames ==
    {"score_component", "health_component", "stats_component", "value_component"}

GameValues == {7}

\* Game::get_entity_group
Game_get_entity_group(egs, name) ==
    IF \E i \in 1..Len(egs) : egs[i].name = name
    THEN CHOOSE i \in 1..Len(egs) :
             egs[i].name = name /\ \A j \in 1..(i - 1) : egs[j].name # name
    ELSE NullGroup

\* Game::get_entity(entity_group, entity_id)
Game_get_entity(egs, hp, entity_group, entity_id) ==
    LET es == egs[entity_group].entities
        k  == FirstWhere(es, LAMBDA h : hp[h].id = entity_id)
    IN  IF k # 0 THEN es[k] ELSE NullEntity

\* Entity::find_component_by_name: position of the first component of the
\* entity with that name, 0 for nullptr
find_component_by_name(e, component_name) ==
    IF \E k \in 1..Len(e.components) : e.components[k].component_name = component_name
    THEN CHOOSE k \in 1..Len(e.components) :
             /\ e.components[k].component_name = component_name
             /\ \A j \in 1..(k - 1) : e.components[j].component_name # component_name
    ELSE 0

\* Game::get_component_value(component, key); get_score, get_health and
\* get_attack read the one number the component holds
Game_component_value(component, key) ==
    IF component.component_name = "score_component" THEN component.value
    ELSE IF component.component_name = "health_component" THEN component.value
    ELSE IF component.component_name = "stats_component" THEN component.value
    ELSE -1

\* Game::get_component_value(entity_group_name, entity_id, component_name, key)
\* with player pointing to an entity
Game_get_component_value(egs, hp, pl, entity_group_name, entity_id, component_name, key) ==
    IF entity_id = "player" \/ hp[pl].id = entity_id
    THEN LET component == find_component_by_name(hp[pl], component_name)
         IN  IF component # 0
             THEN Game_component_value(hp[pl].components[component], key)
             ELSE LET entity_group == Game_get_entity_group(egs, entity_group_name)
                  IN  IF entity_group # NullGroup
                      THEN LET entity == Game_get_entity(egs, hp, entity_group, entity_id)
                           IN  IF entity # NullEntity
                               THEN LET c2 == find_component_by_name(hp[entity], component_name)
                                    IN  IF c2 # 0
                                        THEN Game_component_value(hp[entity].components[c2], key)
                                        ELSE -1
                               ELSE -1
                      ELSE -1
    ELSE -1

\* The points Game::add_entity_to_group is called with
GamePoints == {[x |-> 1, y |-> 1], [x |-> 2, y |-> 2]}

\* The state after Game::Game()
GameInit ==
    /\ game_entity_groups = <<>>
    /\ game_entities = <<>>
    /\ player = NullEntity
    /\ game_call = [op |-> "none"]
    /\ game_ret = [tag |-> "none"]
    /\ game_maps = <<>>
    /\ game_current_map = NullMap

\* Game::create_entity_group(name)
GameCreateEntityGroup ==
    \E name \in GroupNames :
        /\ Len(game_entity_groups) < MaxGameGroups
        /\ game_entity_groups' =
               Append(game_entity_groups, [name |-> name, entities |-> <<>>])
        /\ game_call' = [op |-> "create_entity_group"]
        /\ game_ret' = [tag |-> "void"]
        /\ UNCHANGED <<game_entities, player, gmap_vars>>

\* Game::add_entity_to_group(entityGroup, entity_type, id, point)
GameAddEntityToGroup ==
    \E entityGroup \in 1..Len(game_entity_groups), entity_type \in EntityTypes,
       id \in GameIds, point \in GamePoints :
        /\ Len(game_entities) < MaxGameEntities
        /\ game_entities' =
               Append(game_entities, [id |-> id, type |-> entity_type, point |-> point,
                                      components |-> <<>>])
        /\ player' = IF entity_type = "Player" THEN Len(game_entities') ELSE player
        /\ game_entity_groups' =
               [game_entity_groups EXCEPT ![entityGroup].entities =
                    Append(@, Len(game_entities'))]
        /\ game_call' = [op |-> "add_entity_to_group"]
        /\ game_ret' = [tag |-> "void"]
        /\ UNCHANGED gmap_vars

\* Game::add_score_component / add_health_component / add_stats_component /
\* add_value_component (entity, number)
GameAddComponent ==
    \E entity \in 1..Len(game_entities), n \in GameComponentNames, v \in GameValues :
        /\ Len(game_entities[entity].components) < MaxComponents
        /\ game_entities' =
               [game_entities EXCEPT ![entity].components =
                    Append(@, [component_name |-> n, value |-> v])]
        /\ game_call' = [op |-> "add_component"]
        /\ game_ret' = [tag |-> "void"]
        /\ UNCHANGED <<game_entity_groups, player, gmap_vars>>

\* What a call that dereferences the null player pointer may do
NullPlayerOutcomes ==
    {[tag |-> "crash", val |-> 0]} \cup {[tag |-> "int", val |-> v] : v \in {-1} \cup GameValues}

\* Game::get_component_value(entity_group_name, entity_id, component_name, key)
GameGetComponentValue ==
    \E g \in GroupNames, id \in GameIds \cup {"player"}, n \in GameComponentNames :
        /\ game_call' = [op |-> "get_component_value", group |-> g, id |-> id,
                         component |-> n, key |-> "value"]
        /\ IF player = NullEntity
           THEN game_ret' \in NullPlayerOutcomes
           ELSE game_ret' =
                    [tag |-> "int",
                     val |-> Game_get_component_value(game_entity_groups, game_entities,
                                                      player, g, id, n, "value")]
        /\ UNCHANGED <<game_entity_groups, game_entities, player, gmap_vars>>

GameNext ==
    \/ GameCreateEntityGroup /\ UNCHANGED <<astar_vars, ca_vars, reg_vars, eng_vars>>
    \/ GameAddEntityToGroup /\ UNCHANGED <<astar_vars, ca_vars, reg_vars, eng_vars>>
    \/ GameAddComponent /\ UNCHANGED <<astar_vars, ca_vars, reg_vars, eng_vars>>
    \/ GameGetComponentValue /\ UNCHANGED <<astar_vars, ca_vars, reg_vars, eng_vars>>

\* The entity a call of get_component_value names: the player for the id
\* "player" or the player's own id, else the entity of the named group with
\* that id
NamedEntity(egs, hp, pl, g, id) ==
    IF id = "player" \/ hp[pl].id = id
    THEN pl
    ELSE LET gi == Game_get_entity_group(egs, g)
         IN  IF gi = NullGroup THEN NullEntity ELSE Game_get_entity(egs, hp, gi, id)

KnownKinds == {"score_component", "health_component", "stats_component"}

\* C9: get_component_value returns, for the player or any other entity of the
\* named group that owns the named component, the component's value by kind
\* (score, health, attack), and -1 only when the entity, the component or the
\* kind is unknown.  (Stated for calls made while the player exists.)
C9_ValueOfAnyEntity ==
    (game_call.op = "get_component_value" /\ player # NullEntity) =>
        LET e == NamedEntity(game_entity_groups, game_entities, player,
                             game_call.group, game_call.id)
            c == IF e = NullEntity THEN 0
                 ELSE find_component_by_name(game_entities[e], game_call.component)
        IN  /\ game_ret.tag = "int"
            /\ (c # 0 /\ game_call.component \in KnownKinds) =>
                   game_ret.val = game_entities[e].components[c].value
            /\ game_ret.val = -1 =>
                   (c = 0 \/ game_call.component \notin KnownKinds)

\* C12: after any sequence of entity creations, no two entities of one group
\* have the same id.
C12_IdsUniqueInGroup ==
    \A g \in 1..Len(game_entity_groups) :
        LET es == game_entity_groups[g].entities
        IN  \A i, j \in 1..Len(es) :
                i # j => game_entities[es[i]].id # game_entities[es[j]].id

\* ------------------------------------------------------------------------
\* Game on a map (Game.cpp): switch_map, is_xy_blocked
\* ------------------------------------------------------------------------
\* The cell values of a Game map: 0 is a wall, 9 is open ground
GameWall == 0

GameGround == 9

\* A map of walls with open ground on the cells (row, column) of ground
RoomMap(name, w, h, ground) ==
    Map(name, w, h,
        [nr |-> h, nc |-> w,
         rows |-> [p \in Cells(h, w) |-> IF p \in ground THEN GameGround ELSE GameWall]])

\* The maps of the model: a room of 2 x 2 cells within walls, and a map of
\* 2 x 2 walls
GameMapStock ==
    << RoomMap("A", 4, 4, {<<1, 1>>, <<1, 2>>, <<2, 1>>, <<2, 2>>}),
       RoomMap("B", 2, 2, {}) >>

\* A Game whose maps have been made; no map is current yet
GameMapsInit ==
    /\ game_entity_groups = <<>>
    /\ game_entities = <<>>
    /\ player = NullEntity
    /\ game_call = [op |-> "none"]
    /\ game_ret = [tag |-> "none"]
    /\ game_maps = GameMapStock
    /\ game_current_map = NullMap

\* roguely::common::MovementDirection and roguely::common::WhoAmI
MovementDirections == {"Up", "Down", "Left", "Right"}

WhoAmIs == {"Player", "Enemy"}

\* Game::is_entity_location_traversable(x, y, entities, whoAmI, dir): what
\* std::make_shared<TileWalkableInfo> returns, a pointer that is not null
is_entity_location_traversable(hp, x, y, entities, whoAmI, dir) ==
    LET k == FirstWhere(entities,
                 LAMBDA h :
                     /\ \/ dir = "Up" /\ hp[h].point.y = y - 1 /\ hp[h].point.x = x
                        \/ dir = "Down" /\ hp[h].point.y = y + 1 /\ hp[h].point.x = x
                        \/ dir = "Left" /\ hp[h].point.y = y /\ hp[h].point.x = x - 1
                        \/ dir = "Right" /\ hp[h].point.y = y /\ hp[h].point.x = x + 1
                     /\ (hp[h].type = "Enemy" \/ whoAmI = "Enemy"))
    IN  IF k # 0
        THEN [null |-> FALSE, walkable |-> FALSE, point |-> hp[entities[k]].point,
              type |-> hp[entities[k]].type]
        ELSE [null |-> FALSE, walkable |-> TRUE, point |-> [x |-> x, y |-> y],
              type |-> "Ground"]

\* The loop of Game::is_xy_blocked over entity_groups_to_check, from position
\* k on.  The shared_ptr is_entity_location_traversable returns is converted
\* to bool: true unless it is nullptr
RECURSIVE BlockedFrom(_, _, _, _, _, _, _, _, _)
BlockedFrom(egs, hp, x, y, entity_groups_to_check, k, blocked, whoAmI, dir) ==
    IF k > Len(entity_groups_to_check)
    THEN blocked
    ELSE LET group == Game_get_entity_group(egs, entity_groups_to_check[k])
         IN  IF /\ group # NullGroup
                /\ ~is_entity_location_traversable(hp, x, y, egs[group].entities,
                                                   whoAmI, dir).null
             THEN BlockedFrom(egs, hp, x, y, entity_groups_to_check, k + 1, FALSE,
                              whoAmI, dir)
             ELSE TRUE

\* Game::is_xy_blocked(x, y, entity_groups_to_check), after the test of the
\* player's coordinates, on a point inside the current map cur
xy_blocked_on_map(egs, hp, cur, x, y, entity_groups_to_check, whoAmI, dir) ==
    IF At(cur.map, y, x) = GameWall
    THEN TRUE
    ELSE BlockedFrom(egs, hp, x, y, entity_groups_to_check, 1, TRUE, whoAmI, dir)

\* Game::is_xy_blocked(x, y, entity_groups_to_check): the outcomes.  player->x()
\* on a null player, current_map->map on a null current map and the read of a
\* cell outside the matrix are undefined
is_xy_blocked(egs, hp, pl, ms, cm, x, y, entity_groups_to_check, whoAmI, dir) ==
    LET undefined == {[tag |-> "crash", val |-> FALSE]} \cup
                     {[tag |-> "bool", val |-> b] : b \in BOOLEAN}
    IN  IF pl = NullEntity
        THEN undefined
        ELSE IF hp[pl].point.x = x \/ hp[pl].point.y = y
        THEN {[tag |-> "bool", val |-> TRUE]}
        ELSE IF cm = NullMap
        THEN undefined
        ELSE IF ~InRange(ms[cm].map, y, x)
        THEN undefined
        ELSE {[tag |-> "bool",
               val |-> xy_blocked_on_map(egs, hp, ms[cm], x, y, entity_groups_to_check,
                                         whoAmI, dir)]}

\* The points and group lists is_xy_blocked is asked about
GameQueryXs == 1..3

GameQueryYs == 1..2

GroupLists == {<<>>, <<"mobs">>, <<"mobs", "items">>}

\* std::find_if over the maps by name (Game::switch_map, Game::get_map): the
\* first map of that name, NullMap for end()
Game_get_map(ms, name) ==
    IF \E i \in 1..Len(ms) : ms[i].name = name
    THEN CHOOSE i \in 1..Len(ms) :
             ms[i].name = name /\ \A j \in 1..(i - 1) : ms[j].name # name
    ELSE NullMap

\* Game::switch_map(name)
GameSwitchMap ==
    \E name \in MapNames \cup {"C"} :
        /\ LET m == Game_get_map(game_maps, name)
           IN  game_current_map' = IF m # NullMap THEN m ELSE game_current_map
        /\ game_call' = [op |-> "switch_map"]
        /\ game_ret' = [tag |-> "void"]
        /\ UNCHANGED <<game_entity_groups, game_entities, player, game_maps>>

\* Game::is_xy_blocked(x, y, entity_groups_to_check); the default arguments of
\* is_entity_location_traversable are declared in Game.h
GameIsXyBlocked ==
    \E x \in GameQueryXs, y \in GameQueryYs, groups \in GroupLists :
        /\ game_call' = [op |-> "is_xy_blocked", x |-> x, y |-> y, groups |-> groups]
        /\ game_ret' \in UNION { is_xy_blocked(game_entity_groups, game_entities, player,
                                                game_maps, game_current_map, x, y, groups,
                                                whoAmI, dir) :
                                      whoAmI \in WhoAmIs, dir \in MovementDirections }
        /\ UNCHANGED <<game_entity_groups, game_entities, player, gmap_vars>>

GameMapNext ==
    \/ GameCreateEntityGroup /\ UNCHANGED <<astar_vars, ca_vars, reg_vars, eng_vars>>
    \/ GameAddEntityToGroup /\ UNCHANGED <<astar_vars, ca_vars, reg_vars, eng_vars>>
    \/ GameSwitchMap /\ UNCHANGED <<astar_vars, ca_vars, reg_vars, eng_vars>>
    \/ GameIsXyBlocked /\ UNCHANGED <<astar_vars, ca_vars, reg_vars, eng_vars>>

\* Some entity of one of the named groups is positioned at (x, y)
EntityOfGroupsAt(egs, hp, groups, x, y) ==
    \E k \in 1..Len(groups) :
        LET g == Game_get_entity_group(egs, groups[k])
        IN  /\ g # NullGroup
            /\ \E i \in 1..Len(egs[g].entities) :
                   hp[egs[g].entities[i]].point = [x |-> x, y |-> y]

\* A call of is_xy_blocked made with a player and a current map, about a
\* point of the map
BlockedAsked ==
    /\ game_call.op = "is_xy_blocked"
    /\ player # NullEntity
    /\ game_current_map # NullMap
    /\ InRange(game_maps[game_current_map].map, game_call.y, game_call.x)

\* C15: is_xy_blocked(x, y, groups) is true exactly when the map cell (x, y)
\* is a wall, or an entity of one of the given groups is positioned at (x, y),
\* or (x, y) is the player's point in both coordinates; for open ground that
\* is not the player's point and holds no entity of the given groups (also
\* with an empty group list) it is false.
C15_BlockedExactly ==
    BlockedAsked =>
        /\ game_ret.tag = "bool"
        /\ game_ret.val =
               \/ At(game_maps[game_current_map].map, game_call.y, game_call.x) = GameWall
               \/ EntityOfGroupsAt(game_entity_groups, game_entities, game_call.groups,
                                   game_call.x, game_call.y)
               \/ game_entities[player].point = [x |-> game_call.x, y |-> game_call.y]

\* ------------------------------------------------------------------------
\* Game's movement test (Game.cpp): is_tile_walkable
\* ------------------------------------------------------------------------
\* The cell next to (x, y) in direction dir: the cell the comparisons of
\* is_tile_player_tile, is_entity_location_traversable and
\* is_tile_on_map_traversable are about
Neighbour(x, y, dir) ==
    CASE dir = "Up"    -> [x |-> x, y |-> y - 1]
      [] dir = "Down"  -> [x |-> x, y |-> y + 1]
      [] dir = "Left"  -> [x |-> x - 1, y |-> y]
      [] OTHER         -> [x |-> x + 1, y |-> y]

\* Game::is_tile_player_tile(x, y, dir)
is_tile_player_tile(hp, pl, x, y, dir) ==
    \/ dir = "Up" /\ hp[pl].point.y = y - 1 /\ hp[pl].point.x = x
    \/ dir = "Down" /\ hp[pl].point.y = y + 1 /\ hp[pl].point.x = x
    \/ dir = "Left" /\ hp[pl].point.y = y /\ hp[pl].point.x = x - 1
    \/ dir = "Right" /\ hp[pl].point.y = y /\ hp[pl].point.x = x + 1

\* Game::is_tile_on_map_traversable(x, y, dir, tileId) on a map with a matrix:
\* only the comparison of the direction dir reads a cell
is_tile_on_map_traversable(cur, x, y, dir, tileId) ==
    ~(At(cur.map, Neighbour(x, y, dir).y, Neighbour(x, y, dir).x) = tileId)

Twi(walkable, point, type) ==
    [tag |-> "twi", walkable |-> walkable, point |-> point, type |-> type]

\* return {}: a TileWalkableInfo with every member at its default.  The
\* struct is declared in Game.h: the point and the type are the zero values,
\* and both values of walkable are followed
DefaultTwis == {Twi(w, [x |-> 0, y |-> 0], "default") : w \in BOOLEAN}

\* The loop of Game::is_tile_walkable over entity_groups_to_check, from
\* position k on: the results it can return
RECURSIVE WalkableFrom(_, _, _, _, _, _, _, _, _)
WalkableFrom(egs, hp, cur, x, y, dir, whoAmI, entity_groups_to_check, k) ==
    IF k > Len(entity_groups_to_check)
    THEN DefaultTwis
    ELSE IF ~is_tile_on_map_traversable(cur, x, y, dir, GameWall)
    THEN {Twi(FALSE, [x |-> x, y |-> y], "Wall")}
    ELSE LET group == Game_get_entity_group(egs, entity_groups_to_check[k])
             walkableInfo ==
                 is_entity_location_traversable(hp, x, y, egs[group].entities, whoAmI, dir)
         IN  IF group # NullGroup /\ walkableInfo.walkable
             THEN {Twi(walkableInfo.walkable, walkableInfo.point, walkableInfo.type)}
             ELSE WalkableFrom(egs, hp, cur, x, y, dir, whoAmI,
                               entity_groups_to_check, k + 1)

\* Game::is_tile_walkable(x, y, dir, whoAmI, entity_groups_to_check): the
\* outcomes.  player->x() on a null player, current_map->map on a null current
\* map and the read of a cell outside the matrix are undefined
is_tile_walkable(egs, hp, pl, ms, cm, x, y, dir, whoAmI, entity_groups_to_check) ==
    LET undefined ==
            {[tag |-> "crash", walkable |-> FALSE, point |-> [x |-> 0, y |-> 0],
              type |-> "default"]} \cup
            {Twi(w, [x |-> x, y |-> y], "Wall") : w \in BOOLEAN}
    IN  IF pl = NullEntity
        THEN undefined
        ELSE IF is_tile_player_tile(hp, pl, x, y, dir)
        THEN {Twi(FALSE, [x |-> x, y |-> y], "Player")}
        ELSE IF entity_groups_to_check = <<>>
        THEN DefaultTwis
        ELSE IF cm = NullMap
        THEN undefined
        ELSE IF ~InRange(ms[cm].map, Neighbour(x, y, dir).y, Neighbour(x, y, dir).x)
        THEN undefined
        ELSE WalkableFrom(egs, hp, ms[cm], x, y, dir, whoAmI, entity_groups_to_check, 1)

\* The points is_tile_walkable is asked about: the open ground of map "A"
WalkQueryXs == 1..2

WalkQueryYs == 1..2

\* The group lists is_tile_walkable is given
WalkGroupLists == {<<>>, <<"mobs", "items">>}

\* Game::is_tile_walkable(x, y, dir, whoAmI, entity_groups_to_check)
GameIsTileWalkable ==
    \E x \in WalkQueryXs, y \in WalkQueryYs, dir \in MovementDirections,
       whoAmI \in WhoAmIs, groups \in WalkGroupLists :
        /\ game_call' = [op |-> "is_tile_walkable", x |-> x, y |-> y, dir |-> dir,
                         whoAmI |-> whoAmI, groups |-> groups]
        /\ game_ret' \in is_tile_walkable(game_entity_groups, game_entities, player,
                                          game_maps, game_current_map, x, y, dir,
                                          whoAmI, groups)
        /\ UNCHANGED <<game_entity_groups, game_entities, player, gmap_vars>>

GameWalkNext ==
    \/ GameCreateEntityGroup /\ UNCHANGED <<astar_vars, ca_vars, reg_vars, eng_vars>>
    \/ GameAddEntityToGroup /\ UNCHANGED <<astar_vars, ca_vars, reg_vars, eng_vars>>
    \/ GameSwitchMap /\ UNCHANGED <<astar_vars, ca_vars, reg_vars, eng_vars>>
    \/ GameIsTileWalkable /\ UNCHANGED <<astar_vars, ca_vars, reg_vars, eng_vars>>

\* A call of is_tile_walkable made with a player and a current map, from a
\* point whose neighbour in the direction of travel is a cell of the map
WalkAsked ==
    /\ game_call.op = "is_tile_walkable"
    /\ player # NullEntity
    /\ game_current_map # NullMap
    /\ InRange(game_maps[game_current_map].map,
               Neighbour(game_call.x, game_call.y, game_call.dir).y,
               Neighbour(game_call.x, game_call.y, game_call.dir).x)

\* The entities of the named groups, in the order of the groups and of each
\* group's list, that stand on the point d and stop the mover whoAmI
BlockersAt(egs, hp, groups, d, whoAmI) ==
    LET RECURSIVE From(_)
        From(k) ==
            IF k > Len(groups)
            THEN <<>>
            ELSE LET g == Game_get_entity_group(egs, groups[k])
                     here == IF g = NullGroup
                             THEN <<>>
                             ELSE SelectSeq(egs[g].entities,
                                      LAMBDA h : /\ hp[h].point = d
                                                 /\ (hp[h].type = "Enemy" \/ whoAmI = "Enemy"))
                 IN  here \o From(k + 1)
    IN  From(1)

\* C23: is_tile_walkable checks the player collision first, then for each
\* given group in order the map-wall check and the entity-occupancy check of
\* that group, and returns at the first blocking result: a blocked destination
\* gives not-walkable with the blocker's kind (player, wall or the occupying
\* entity) and coordinates; when no check blocks (an empty group list on open
\* floor included) the result is walkable.  The coordinates of a blocking
\* player or wall may be those of the asked point or of the destination.
C23_FirstBlockerIsNamed ==
    WalkAsked =>
        LET d == Neighbour(game_call.x, game_call.y, game_call.dir)
            asked == [x |-> game_call.x, y |-> game_call.y]
            wall == At(game_maps[game_current_map].map, d.y, d.x) = GameWall
            blockers == BlockersAt(game_entity_groups, game_entities, game_call.groups,
                                   d, game_call.whoAmI)
        IN  /\ game_ret.tag = "twi"
            /\ IF game_entities[player].point = d
               THEN /\ ~game_ret.walkable /\ game_ret.type = "Player"
                    /\ game_ret.point \in {asked, d}
               ELSE IF wall /\ game_call.groups # <<>>
               THEN /\ ~game_ret.walkable /\ game_ret.type = "Wall"
                    /\ game_ret.point \in {asked, d}
               ELSE IF blockers # <<>>
               THEN /\ ~game_ret.walkable
                    /\ game_ret.type = game_entities[blockers[1]].type
                    /\ game_ret.point = d
               ELSE (~wall => game_ret.walkable)

\* ------------------------------------------------------------------------
\* Game's field of view (Game.cpp): rb_fov
\* ------------------------------------------------------------------------
\* (float)std::cos(i * 0.01745f) for i = 0..359, in units of 1/FScale
RbCosTable ==
    <<
       100000000, 99984777, 99939108, 99863005, 99756497, 99619615,
       99452394, 99254894, 99027175, 98769295, 98481345, 98163408,
       97815579, 97437972, 97030687, 96593863, 96127623, 95632112,
       95107484, 94553894, 93971515, 93360519, 92721099, 92053443,
       91357762, 90634257, 89883161, 89104688, 88299090, 87466598,
       86607480, 85721987, 84810394, 83872974, 82910019, 81921816,
       80908668, 79870886, 78808779, 77722681, 76612914, 75479817,
       74323738, 73145032, 71944046, 70721155, 69476730, 68211156,
       66924804, 65618080, 64291376, 62945092, 61579645, 60195440,
       58792913, 57372481, 55934578, 54479647, 53008121, 51520461,
       50017112, 48498535, 46965179, 45417532, 43856058, 42281228,
       40693524, 39093420, 37481421, 35858008, 34223679, 32578927,
       30924246, 29260159, 27587160, 25905764, 24216479, 22519809,
       20816293, 19106439, 17390767, 15669799, 13944048, 12214063,
       10480358, 8743463, 7003906, 5262204, 3518911, 1774547,
       29643, -1715270, -3459673, -5203011, -6944764, -8684403,
       -10421409, -12155230, -13885351, -15611242, -17332381, -19048253,
       -20758313, -22462054, -24158953, -25848499, -27530181, -29203475,
       -30867872, -32522869, -34167966, -35802671, -37426460, -39038855,
       -40639362, -42227495, -43802780, -45364708, -46912840, -48446691,
       -49965766, -51469648, -52957839, -54429924, -55885440, -57323915,
       -58744955, -60148084, -61532927, -62899023, -64245957, -65573341,
       -66880739, -68167794, -69434094, -70679229, -71902865, -73104584,
       -74284065, -75440925, -76574796, -77685368, -78772271, -79835200,
       -80873823, -81887800, -82876861, -83840674, -84778970, -85691452,
       -86577827, -87437850, -88271242, -89077765, -89857167, -90609193,
       -91333640, -92030269, -92698878, -93339270, -93951225, -94534582,
       -95089149, -95614767, -96111268, -96578503, -97016335, -97424620,
       -97803241, -98152083, -98471040, -98760009, -99018908, -99247658,
       -99446183, -99614429, -99752343, -99859887, -99937022, -99983722,
       -99999982, -99985790, -99941158, -99866092, -99760616, -99624765,
       -99458575, -99262100, -99035406, -98778552, -98491621, -98174703,
       -97827882, -97451288, -97045010, -96609187, -96143943, -95649421,
       -95125782, -94573170, -93991774, -93381745, -92743284, -92076588,
       -91381848, -90659291, -89909124, -89131576, -88326901, -87495315,
       -86637104, -85752499, -84841782, -83905244, -82943141, -81955802,
       -80943489, -79906535, -78845257, -77759963, -76651001, -75518686,
       -74363375, -73185438, -71985203, -70763063, -69519359, -68254483,
       -66968846, -65662795, -64336771, -62991160, -61626327, -60242772,
       -58840865, -57421011, -55983704, -54529357, -53058362, -51571256,
       -50068444, -48550385, -47017503, -45470345, -43909341, -42334926,
       -40747660, -39147991, -37536356, -35913333, -34279379, -32634985,
       -30980608, -29316846, -27644154, -25962999, -24273986, -22577579,
       -20874253, -19164617, -17449145, -15728314, -14002740, -12272903,
       -10539328, -8802497, -7063033, -5321418, -3578136, -1833812,
       -88929, 1656029, 3400434, 5143804, 6885608, 8625364,
       10362444, 12096370, 13826659, 15552692, 17273989, 18990073,
       20700327, 22404279, 24101408, 25791246, 27473181, 29146755,
       30811498, 32466814, 34112242, 35747331, 37371486, 38984266,
       40585175, 42173767, 43749475, 45311865, 46860495, 48394817,
       49914405, 51418829, 52907562, 54380184, 55836242, 57275343,
       58696967, 60100710, 61486197, 62852925, 64200515, 65528589,
       66836673, 68124408, 69391400, 70637292, 71861649, 73064119,
       74244380, 75401998, 76536655, 77648038, 78735751, 79799485,
       80838925, 81853771, 82843673, 83808345, 84747529, 85660875,
       86548144, 87409079, 88243377, 89050806, 89831120, 90584105,
       91309482, 92007059, 92676634, 93317974, 93930900, 94515240,
       95070791, 95597386, 96094877, 96563119, 97001940, 97411233,
       97790873, 98140723, 98460692, 98750687, 99010611, 99240381,
       99439931, 99609214, 99748158, 99856728, 99934900, 99982637
    >>

\* (float)std::sin(i * 0.01745f) for i = 0..359, in units of 1/FScale
RbSinTable ==
    <<
       0, 1744911, 3489291, 5232609, 6974334, 8713934,
       10450882, 12184647, 13914701, 15640520, 17361574, 19077344,
       20787305, 22490934, 24187717, 25877133, 27558669, 29231817,
       30896062, 32550898, 34195825, 35830337, 37453941, 39066142,
       40666446, 42254364, 43829417, 45391127, 46939015, 48472610,
       49991444, 51495057, 52982986, 54454786, 55910009, 57348198,
       58768934, 60171771, 61556286, 62922060, 64268667, 65595716,
       66902781, 68189478, 69455415, 70700198, 71923459, 73124814,
       74303907, 75460368, 76593858, 77704024, 78790528, 79853046,
       80891246, 81904811, 82893443, 83856833, 84794688, 85706723,
       86592656, 87452227, 88285172, 89091229, 89870161, 90621728,
       91345704, 92041862, 92709994, 93349898, 93961376, 94544238,
       95098323, 95623446, 96119452, 96586186, 97023511, 97431302,
       97809416, 98157752, 98476195, 98764658, 99023044, 99251282,
       99449295, 99617028, 99754423, 99861449, 99938065, 99984252,
       99999994, 99985290, 99940133, 99864554, 99758559, 99622190,
       99455488, 99258500, 99031293, 98773926, 98486489, 98169059,
       97821736, 97444630, 97037852, 96601528, 96135783, 95640773,
       95116639, 94563538, 93981647, 93371135, 92732197, 92065018,
       91369808, 90646780, 89896142, 89118141, 88312995, 87480956,
       86622298, 85737246, 84826100, 83889109, 82926583, 81938809,
       80926079, 79888719, 78827024, 77741319, 76631957, 75499254,
       74343568, 73165238, 71964622, 70742112, 69498044, 68232834,
       66946828, 65640438, 64314079, 62968117, 61602998, 60219109,
       58816880, 57396758, 55959141, 54504508, 53033257, 51545852,
       50042778, 48524445, 46991357, 45443940, 43882686, 42308089,
       40720588, 39120713, 37508899, 35885668, 34251529, 32606941,
       30952445, 29288504, 27615643, 25934395, 24245228, 22548701,
       20845285, 19135523, 17419957, 15699063, 13973412, 12243483,
       10509826, 8772992, 7033464, 5291817, 3548536, 1804174,
       59286, -1685644, -3430036, -5173408, -6915204, -8654872,
       -10391928, -12125795, -13855994, -15581974, -17303185, -19019152,
       -20729327, -22433168, -24130200, -25819862, -27501684, -29175133,
       -30839676, -32494849, -34140107, -35774991, -37398982, -39011562,
       -40612286, -42200622, -43776131, -45338309, -46886662, -48420757,
       -49940088, -51444232, -52932715, -54405057, -55860853, -57299620,
       -58720964, -60124421, -61509556, -62875980, -64223236, -65550959,
       -66858721, -68146104, -69412756, -70658255, -71882260, -73084372,
       -74264216, -75421464, -76555729, -77666682, -78754020, -79817343,
       -80856371, -81870800, -82860273, -83824515, -84763259, -85676169,
       -86562991, -87423456, -88257319, -89064288, -89844143, -90596658,
       -91321564, -92018664, -92687768, -93328625, -93941069, -94524908,
       -95079976, -95606083, -96103072, -96570820, -97009140, -97417927,
       -97797066, -98146409, -98465866, -98755354, -99014765, -99244022,
       -99443060, -99611825, -99750257, -99858314, -99935967, -99983186,
       -99999958, -99986285, -99942166, -99867618, -99762660, -99627322,
       -99461651, -99265695, -99039507, -98783165, -98496747, -98180330,
       -97834027, -97457933, -97052163, -96616828, -96152091, -95658070,
       -95134914, -94582802, -94001889, -93392336, -92754364, -92088145,
       -91393894, -90671790, -89922094, -89145023, -88340783, -87509668,
       -86651903, -85767734, -84857470, -83921367, -82959712, -81972772,
       -80960894, -79924363, -78863472, -77778596, -76670033, -75538099,
       -74383193, -73205638, -72005790, -70783985, -69540662, -68276161,
       -66990840, -65685153, -64359462, -63014144, -61649668, -60266429,
       -58864832, -57445276, -56008267, -54554200, -53083485, -51596648,
       -50094098, -48576257, -47043660, -45496744, -43935972, -42361778,
       -40774730, -39175266, -37563831, -35940999, -34307224, -32662958,
       -31008792, -29345185, -27672639, -25991625, -24302740, -22606456,
       -20903242, -19193710, -17478333, -15757588, -14032091, -12302321,
       -10568806, -8832025, -7092602, -5351019, -3607760, -1863450
    >>

\* for (int j = 0; j < 40; j++)
RbSteps == 40

\* (int)v for the fixed-point number v: the fraction is dropped, also below 0
TruncToInt(v) == IF v >= 0 THEN v \div FScale ELSE -((-v) \div FScale)

\* The loop over j of one ray of rb_fov, from step j on at the point (ox, oy):
\* the cells whose light it sets, and whether it reaches a cell that is not in
\* the matrices (there the ray is followed no further)
RECURSIVE RbRay(_, _, _, _, _, _)
RbRay(mp, ox, oy, x_, y_, j) ==
    IF j >= RbSteps
    THEN [cells |-> {}, outside |-> FALSE]
    ELSE LET r == TruncToInt(oy)
             c == TruncToInt(ox)
         IN  IF ~InRange(mp.map, r, c)
             THEN [cells |-> {}, outside |-> TRUE]
             ELSE IF At(mp.map, r, c) = 0
             THEN [cells |-> {<<r, c>>}, outside |-> FALSE]
             ELSE LET rest == RbRay(mp, ox + x_, oy + y_, x_, y_, j + 1)
                  IN  [cells |-> {<<r, c>>} \cup rest.cells, outside |-> rest.outside]

\* Game::rb_fov on the map mp with the player at pt: a new light map of
\* zeros, with 2 in every cell some ray sets; outside tells whether some ray
\* reaches a cell that is not in the matrices
rb_fov(mp, pt) ==
    LET ray(i) == RbRay(mp, (2 * pt.x + 1) * (FScale \div 2),
                        (2 * pt.y + 1) * (FScale \div 2),
                        RbCosTable[i + 1], RbSinTable[i + 1], 0)
        rays == [i \in Angles |-> ray(i)]
        lit  == UNION {rays[i].cells : i \in Angles}
    IN  [map |-> [mp EXCEPT !.light_map =
                      [nr |-> mp.height, nc |-> mp.width,
                       rows |-> [p \in Cells(mp.height, mp.width) |->
                                     IF p \in lit THEN 2 ELSE 0]]],
         outside |-> \E i \in Angles : rays[i].outside]

\* Game::rb_fov().  current_map->light_map on a null current map, player->x()
\* on a null player and the access to an element outside the matrices are
\* undefined: the call may abort ("crash", as a checked matrix does), or go on
\* with memory outside the light map written ("outside")
GameRbFov ==
    /\ game_call' = [op |-> "rb_fov"]
    /\ IF game_current_map = NullMap
       THEN /\ game_ret' = [tag |-> "crash"]
            /\ UNCHANGED game_maps
       ELSE IF player = NullEntity
       THEN /\ game_ret' = [tag |-> "crash"]
            /\ game_maps' = [game_maps EXCEPT ![game_current_map].light_map =
                                 GenericMatrix(@.nr, @.nc, 0)]
       ELSE LET res == rb_fov(game_maps[game_current_map], game_entities[player].point)
            IN  /\ game_maps' = [game_maps EXCEPT ![game_current_map] = res.map]
                /\ IF res.outside
                   THEN game_ret' \in {[tag |-> "crash"], [tag |-> "outside"]}
                   ELSE game_ret' = [tag |-> "void"]
    /\ UNCHANGED <<game_entity_groups, game_entities, player, game_current_map>>

GameFovNext ==
    \/ GameCreateEntityGroup /\ UNCHANGED <<astar_vars, ca_vars, reg_vars, eng_vars>>
    \/ GameAddEntityToGroup /\ UNCHANGED <<astar_vars, ca_vars, reg_vars, eng_vars>>
    \/ GameSwitchMap /\ UNCHANGED <<astar_vars, ca_vars, reg_vars, eng_vars>>
    \/ GameRbFov /\ UNCHANGED <<astar_vars, ca_vars, reg_vars, eng_vars>>

\* C18: every ray of the field of view marks the cells it crosses up to the
\* first wall, marks that wall and nothing beyond it, and stops on leaving the
\* map, so that no cell outside [0, width-1] x [0, height-1] is read or
\* written.  (Stated for calls made with a player and a current map.)
C18_RaysStayInsideMap ==
    (game_call.op = "rb_fov" /\ player # NullEntity /\ game_current_map # NullMap) =>
        game_ret.tag = "void"

\* ------------------------------------------------------------------------
\* Random points (engine.cpp): Map::get_random_point and the script function
\* get_random_point_on_map
\* ------------------------------------------------------------------------
MaxSearchWidth == 2

MaxSearchHeight == 2

\* EntityManager::lua_is_point_unique: no entity with a LuaComponent has a
\* position_component equal to the point
lua_is_point_unique(egs, hp, pt) ==
    ~\E g \in 1..Len(egs) :
        \E k \in 1..Len(egs[g].entities) :
            LET e == hp[egs[g].entities[k]]
                lua_component == find_first_component_by_type(e)
            IN  /\ lua_component # 0
                /\ HasKey(e.components[lua_component].properties, "position_component")
                /\ LET position_component ==
                           e.components[lua_component].properties["position_component"]
                   IN  position_component["x"] = pt.x /\ position_component["y"] = pt.y

\* The argument {0} of get_random_point in get_random_point_on_map: walls
off_limit_sprites_ids == {0}

\* The maps of the model: every layout DrawSequences gives, in every size
SearchMaps ==
    UNION { { Map("A", w, h, SeededMatrix(w, h, z)) : z \in DrawSequences(Cells(h, w)) } :
                w \in 1..MaxSearchWidth, h \in 1..MaxSearchHeight }

\* An engine in which a map has been made current
SearchInit ==
    /\ \E m \in SearchMaps : maps = <<m>>
    /\ current_map_info = [name |-> "A", map |-> 1]
    /\ VIEW_PORT_WIDTH = 0 /\ VIEW_PORT_HEIGHT = 0
    /\ view_port_x = 0 /\ view_port_y = 0
    /\ view_port_width = 0 /\ view_port_height = 0
    /\ current_dimension =
           [point |-> [x |-> 0, y |-> 0],
            supplemental_point |-> [x |-> 0, y |-> 0],
            size |-> [width |-> 0, height |-> 0]]
    /\ eng_call = [op |-> "none"]
    /\ eng_ret = [tag |-> "none"]
    /\ view_updates = 0
    /\ SearchIdle
    /\ RngInit
    /\ SideIdle

SearchFrame ==
    UNCHANGED <<maps, current_map_info, VIEW_PORT_WIDTH, VIEW_PORT_HEIGHT, view_port_x,
                view_port_y, view_port_width, view_port_height, current_dimension,
                view_updates, rng_vars, side_vars>>

\* The script function get_random_point_on_map is called: with a current map
\* it enters the do-while loop, without one it returns an empty table
CallGetRandomPointOnMap ==
    /\ search_pc = "idle"
    /\ eng_call' = [op |-> "get_random_point_on_map"]
    /\ IF current_map_info.map # NullMap
       THEN /\ search_pc' = "get_random_point"
            /\ eng_ret' = [tag |-> "none"]
            /\ UNCHANGED <<attempts, found_point>>
       ELSE /\ eng_ret' = [tag |-> "table", valid |-> FALSE, x |-> 0, y |-> 0]
            /\ UNCHANGED search_vars
    /\ SearchFrame

\* Map::get_random_point({0}) is entered: it throws on an empty map, else it
\* sets attempts to 0.  The exception leaves the do-while loop and the script
\* function
EnterGetRandomPoint ==
    /\ search_pc = "get_random_point"
    /\ LET cur == maps[current_map_info.map]
       IN  IF cur.width <= 0 \/ cur.height <= 0
           THEN /\ search_pc' = "idle"
                /\ eng_ret' = [tag |-> "throw", what |-> "Empty map"]
                /\ UNCHANGED attempts
           ELSE /\ search_pc' = "while"
                /\ attempts' = 0
                /\ UNCHANGED eng_ret
    /\ UNCHANGED <<found_point, eng_call>>
    /\ SearchFrame

\* One test of while (attempts++ < maxAttempts) with the body it guards: a
\* draw of row and col, and the return when the cell is not off limits; the
\* throw after the loop
DrawRandomPoint ==
    /\ search_pc = "while"
    /\ LET cur == maps[current_map_info.map]
           maxAttempts == cur.height * cur.width
       IN  /\ attempts' = attempts + 1
           /\ IF attempts < maxAttempts
              THEN \E row \in 0..(cur.height - 1), col \in 0..(cur.width - 1) :
                       IF At(cur.map, row, col) \notin off_limit_sprites_ids
                       THEN /\ found_point' = [x |-> col, y |-> row]
                            /\ search_pc' = "unique"
                            /\ UNCHANGED eng_ret
                       ELSE UNCHANGED <<found_point, search_pc, eng_ret>>
              ELSE /\ search_pc' = "idle"
                   /\ eng_ret' = [tag |-> "throw",
                                  what |-> "Unable to find a random point in map"]
                   /\ UNCHANGED found_point
    /\ UNCHANGED eng_call
    /\ SearchFrame

\* while (!entity_manager->lua_is_point_unique(point)): the point is returned,
\* or get_random_point is called again
CheckPointUnique ==
    /\ search_pc = "unique"
    /\ IF lua_is_point_unique(entity_groups, heap, found_point)
       THEN /\ search_pc' = "idle"
            /\ eng_ret' = [tag |-> "table", valid |-> TRUE,
                           x |-> found_point.x, y |-> found_point.y]
       ELSE /\ search_pc' = "get_random_point"
            /\ UNCHANGED eng_ret
    /\ UNCHANGED <<attempts, found_point, eng_call>>
    /\ SearchFrame

\* The steps of a call of get_random_point_on_map that is under way
SearchRun ==
    \/ EnterGetRandomPoint /\ UNCHANGED <<astar_vars, ca_vars, reg_vars, game_vars>>
    \/ DrawRandomPoint /\ UNCHANGED <<astar_vars, ca_vars, reg_vars, game_vars>>
    \/ CheckPointUnique /\ UNCHANGED <<astar_vars, ca_vars, reg_vars, game_vars>>

\* The script runs one function at a time: it adds entities between calls
SearchNext ==
    \/ /\ search_pc = "idle"
       /\ CallCreateEntityGroup
       /\ UNCHANGED <<astar_vars, ca_vars, game_vars, eng_vars>>
    \/ /\ search_pc = "idle"
       /\ CallAddEntity
       /\ UNCHANGED <<astar_vars, ca_vars, game_vars, eng_vars>>
    \/ CallGetRandomPointOnMap /\ UNCHANGED <<astar_vars, ca_vars, reg_vars, game_vars>>
    \/ EnterGetRandomPoint /\ UNCHANGED <<astar_vars, ca_vars, reg_vars, game_vars>>
    \/ DrawRandomPoint /\ UNCHANGED <<astar_vars, ca_vars, reg_vars, game_vars>>
    \/ CheckPointUnique /\ UNCHANGED <<astar_vars, ca_vars, reg_vars, game_vars>>

\* Every cell of the current map is a wall or holds an entity
NoAcceptablePoint ==
    LET cur == maps[current_map_info.map]
    IN  \A p \in Cells(cur.height, cur.width) :
            \/ At(cur.map, p[1], p[2]) \in off_limit_sprites_ids
            \/ ~lua_is_point_unique(entity_groups, heap, [x |-> p[2], y |-> p[1]])

GenPeriod == 3

RngFrame ==
    UNCHANGED <<maps, current_map_info, VIEW_PORT_WIDTH, VIEW_PORT_HEIGHT, view_port_x,
                view_port_y, view_port_width, view_port_height, current_dimension,
                eng_call, eng_ret, view_updates, search_vars, side_vars>>

\* generate_random_int(min, max) is entered:
\* std::uniform_int_distribution<> dis(min, max) is built, before the lock
EnterGenerateRandomInt(t) ==
    /\ thread_pc[t] = "idle"
    /\ thread_pc' = [thread_pc EXCEPT ![t] = "dis"]
    /\ UNCHANGED <<gen_mut, gen_mt, rand_next, thread_ret>>
    /\ RngFrame

\* std::unique_lock l(gen_mut): the thread waits until the mutex is free
LockGenMut(t) ==
    /\ thread_pc[t] = "dis"
    /\ gen_mut = 0
    /\ gen_mut' = t
    /\ thread_pc' = [thread_pc EXCEPT ![t] = "locked"]
    /\ UNCHANGED <<gen_mt, rand_next, thread_ret>>
    /\ RngFrame

\* dis(gen_mt) reads the state of the generator
ReadGenMt(t) ==
    /\ thread_pc[t] = "locked"
    /\ thread_ret' = [thread_ret EXCEPT ![t] = gen_mt]
    /\ thread_pc' = [thread_pc EXCEPT ![t] = "draw"]
    /\ UNCHANGED <<gen_mut, gen_mt, rand_next>>
    /\ RngFrame

\* dis(gen_mt) writes the next state of the generator
WriteGenMt(t) ==
    /\ thread_pc[t] = "draw"
    /\ gen_mt' = (thread_ret[t] + 1) % GenPeriod
    /\ thread_pc' = [thread_pc EXCEPT ![t] = "drawn"]
    /\ UNCHANGED <<gen_mut, rand_next, thread_ret>>
    /\ RngFrame

\* return: the destructor of l unlocks gen_mut
ReturnRandomInt(t) ==
    /\ thread_pc[t] = "drawn"
    /\ gen_mut' = 0
    /\ thread_pc' = [thread_pc EXCEPT ![t] = "idle"]
    /\ UNCHANGED <<gen_mt, rand_next, thread_ret>>
    /\ RngFrame

\* std::rand() in Game::generate_random_point reads the state of its
\* generator; no mutex is taken
ReadRand(t) ==
    /\ thread_pc[t] = "idle"
    /\ thread_ret' = [thread_ret EXCEPT ![t] = rand_next]
    /\ thread_pc' = [thread_pc EXCEPT ![t] = "rand"]
    /\ UNCHANGED <<gen_mut, gen_mt, rand_next>>
    /\ RngFrame

\* std::rand() writes the next state of its generator and returns
WriteRand(t) ==
    /\ thread_pc[t] = "rand"
    /\ rand_next' = (thread_ret[t] + 1) % GenPeriod
    /\ thread_pc' = [thread_pc EXCEPT ![t] = "idle"]
    /\ UNCHANGED <<gen_mut, gen_mt, thread_ret>>
    /\ RngFrame

RngNext ==
    \/ \E t \in Threads :
           EnterGenerateRandomInt(t) /\ UNCHANGED <<astar_vars, ca_vars, reg_vars, game_vars>>
    \/ \E t \in Threads :
           LockGenMut(t) /\ UNCHANGED <<astar_vars, ca_vars, reg_vars, game_vars>>
    \/ \E t \in Threads :
           ReadGenMt(t) /\ UNCHANGED <<astar_vars, ca_vars, reg_vars, game_vars>>
    \/ \E t \in Threads :
           WriteGenMt(t) /\ UNCHANGED <<astar_vars, ca_vars, reg_vars, game_vars>>
    \/ \E t \in Threads :
           ReturnRandomInt(t) /\ UNCHANGED <<astar_vars, ca_vars, reg_vars, game_vars>>
    \/ \E t \in Threads :
           ReadRand(t) /\ UNCHANGED <<astar_vars, ca_vars, reg_vars, game_vars>>
    \/ \E t \in Threads :
           WriteRand(t) /\ UNCHANGED <<astar_vars, ca_vars, reg_vars, game_vars>>

\* The thread is inside the generate-and-draw step of gen_mt, of std::rand
InDrawOfGenMt(t) == thread_pc[t] \in {"locked", "draw", "drawn"}

InDrawOfRand(t) == thread_pc[t] = "rand"

\* C20: every draw from a shared pseudo-random source, for map generation and
\* for random-point queries, is made while holding the generator's mutex: in
\* every interleaving no two threads are inside the generate-and-draw step of
\* one source at the same time.
C20_DrawsAreSerialized ==
    /\ \A t \in Threads : (InDrawOfGenMt(t) \/ InDrawOfRand(t)) => gen_mut = t
    /\ \A t, u \in Threads :
           t # u => /\ ~(InDrawOfGenMt(t) /\ InDrawOfGenMt(u))
                    /\ ~(InDrawOfRand(t) /\ InDrawOfRand(u))

\* ------------------------------------------------------------------------
\* The cached map segment (engine.cpp, engine.h): Map::draw_map, trigger_redraw
\* ------------------------------------------------------------------------
\* The size of the map whose segment is drawn
SegmentMapWidth == 2

SegmentMapHeight == 2

\* The Dimensions draw_map is given: current_dimension as Engine's member
\* initializer and init_sdl leave it (point and tracked point zero, the size
\* that of the viewport, zero for a window narrower than a sprite) and as
\* update_player_viewport leaves it
DrawDimensions ==
    { [point |-> [x |-> px, y |-> 0],
       supplemental_point |-> [x |-> sx, y |-> sx],
       size |-> [width |-> w, height |-> h]] :
          px \in 0..1, sx \in 0..1, w \in {0, 2, 3}, h \in {0, 2} }

\* What a step of Map::draw_map or trigger_redraw leaves alone
DrawFrame ==
    UNCHANGED <<astar_vars, ca_vars, reg_vars, game_vars, core_vars, search_vars,
                rng_vars, loop_vars, inst_vars>>

\* The cells the two loops of draw_map read, in the order they read them
SegmentCells(dimensions) ==
    (dimensions.point.y..(dimensions.size.height - 1)) \X
    (dimensions.point.x..(dimensions.size.width - 1))

\* Map::draw_map(renderer, dimensions, sprite_sheet, draw_hook).  The key is
\* set before the segment is drawn.  SDL_CreateTexture gives no texture for a
\* width or height of zero and check_sdl_ptr_or_throw throws; (*map)(rows,
\* cols) throws for a cell outside the map, and the texture then holds a part
\* of the segment
draw_map(key, texture, dimensions) ==
    IF key # dimensions
    THEN LET whole == \A p \in SegmentCells(dimensions) :
                          p[1] >= 0 /\ p[1] < SegmentMapHeight /\
                          p[2] >= 0 /\ p[2] < SegmentMapWidth
         IN  IF dimensions.size.width <= 0 \/ dimensions.size.height <= 0
             THEN [key |-> dimensions,
                   texture |-> [null |-> TRUE, dim |-> ZeroDimension, whole |-> FALSE],
                   ret |-> [tag |-> "threw", rebuilt |-> TRUE]]
             ELSE [key |-> dimensions,
                   texture |-> [null |-> FALSE, dim |-> dimensions, whole |-> whole],
                   ret |-> [tag |-> IF whole THEN "void" ELSE "threw", rebuilt |-> TRUE]]
    ELSE [key |-> key, texture |-> texture, ret |-> [tag |-> "void", rebuilt |-> FALSE]]

\* Map::draw_map on the current map, with the Dimension d
DrawMap ==
    \E d \in DrawDimensions :
        LET r == draw_map(current_map_segment_dimension, current_map_segment_texture, d)
        IN  /\ current_map_segment_dimension' = r.key
            /\ current_map_segment_texture' = r.texture
            /\ draw_ret' = r.ret
            /\ draw_call' = [op |-> "draw_map", dimensions |-> d,
                             first |-> ~draw_hist.built,
                             differed |-> draw_hist.built /\ draw_hist.dim # d,
                             requested |-> draw_hist.requested]
            /\ draw_hist' = [built |-> draw_hist.built \/ r.ret.rebuilt,
                             dim |-> IF r.ret.rebuilt THEN d ELSE draw_hist.dim,
                             requested |-> FALSE]
            /\ DrawFrame

\* Map::trigger_redraw, called by the script function force_redraw_map (and
\* by get_blocked_points) on the current map
TriggerRedraw ==
    /\ current_map_segment_dimension' = ZeroDimension
    /\ draw_call' = [op |-> "trigger_redraw"]
    /\ draw_ret' = [tag |-> "void", rebuilt |-> FALSE]
    /\ draw_hist' = [draw_hist EXCEPT !.requested = TRUE]
    /\ UNCHANGED current_map_segment_texture
    /\ DrawFrame

DrawNext == DrawMap \/ TriggerRedraw

\* C22: the cached segment is rebuilt on the first draw_map after the
\* Dimension differs from that of the last rebuild, and on the first draw_map
\* after a redraw request (trigger_redraw, force_redraw_map), whatever the
\* Dimension is; it is not rebuilt when the Dimension is that of the last
\* rebuild and no redraw was requested.
C22_SegmentRebuiltWhenDue ==
    draw_call.op = "draw_map" =>
        /\ (draw_call.differed \/ draw_call.requested) => draw_ret.rebuilt
        /\ (~draw_call.first /\ ~draw_call.differed /\ ~draw_call.requested) =>
               ~draw_ret.rebuilt

\* ------------------------------------------------------------------------
\* The frame loop (engine.cpp): add_system, Engine::game_loop
\* ------------------------------------------------------------------------
\* const Uint32 update_interval = 1000, in units of half a second
update_interval == 2

\* The names the three special callbacks are registered under
SpecialSystems == {"keyboard_input_system", "tick_system", "render_system"}

\* The names scripts register systems under
SystemNames == SpecialSystems \cup {"ai_system", "fx_system"}

\* The systems the range-for of game_loop calls
GenericSystems(registered) == registered \ SpecialSystems

\* The event types SDL_PollEvent delivers
EventTypes == {"SDL_QUIT", "SDL_KEYDOWN", "SDL_KEYUP"}

\* What a callback may register while it runs: nothing, or one system
\* (add_system is try_emplace: a name already registered keeps its callback)
Registrations == {{}} \cup {{n} : n \in SystemNames}

\* What a step of the frame loop leaves alone
LoopFrame ==
    UNCHANGED <<astar_vars, ca_vars, reg_vars, game_vars, core_vars, search_vars,
                rng_vars, draw_vars, inst_vars>>

\* One call of a callback, as frame_log keeps it: the name, the event that
\* led to it (keyboard_input_system only) and the time since last_update_time
Called(name, event) == [name |-> name, event |-> event, elapsed |-> elapsed]

\* A frame that calls render_system before the tick test
NextPhaseRenderFirst(pc) ==
    CASE pc = "frame_start" -> "events"
      [] pc = "events"      -> "systems"
      [] pc = "systems"     -> "render"
      [] pc = "render"      -> "tick"
      [] OTHER              -> "frame_start"

\* The order of the parts of the body of while (!quit)
NextPhase(pc) ==
    CASE pc = "frame_start" -> "events"
      [] pc = "events"      -> "systems"
      [] pc = "systems"     -> "tick"
      [] pc = "tick"        -> "render"
      [] OTHER              -> "frame_start"

\* The script function add_system(name, system_callback), before game_loop
AddSystem ==
    /\ loop_pc = "idle"
    /\ \E n \in SystemNames : systems' = systems \cup {n}
    /\ UNCHANGED <<loop_pc, frame_log, to_visit, quit, polled, elapsed>>
    /\ LoopFrame

\* Engine::game_loop is entered: quit = false, last_update_time = SDL_GetTicks()
EnterGameLoop ==
    /\ loop_pc = "idle"
    /\ loop_pc' = "frame_start"
    /\ quit' = FALSE
    /\ elapsed' = 0
    /\ UNCHANGED <<systems, frame_log, to_visit, polled>>
    /\ LoopFrame

\* while (!quit) { frame_start = SDL_GetTicks(); ...
FrameStart ==
    /\ loop_pc = "frame_start"
    /\ IF quit
       THEN /\ loop_pc' = "done"
            /\ UNCHANGED <<frame_log, polled>>
       ELSE /\ loop_pc' = NextPhase(loop_pc)
            /\ frame_log' = <<>>
            /\ polled' = 0
    /\ UNCHANGED <<systems, to_visit, quit, elapsed>>
    /\ LoopFrame

\* while (SDL_PollEvent(&e)) with an event: SDL_QUIT sets quit, SDL_KEYDOWN
\* calls keyboard_input_system if it is registered (an error is printed)
PollEvent ==
    /\ loop_pc = "events"
    /\ polled < MaxEvents
    /\ polled' = polled + 1
    /\ \E type \in EventTypes :
           /\ quit' = (quit \/ type = "SDL_QUIT")
           /\ IF type = "SDL_KEYDOWN" /\ "keyboard_input_system" \in systems
              THEN /\ frame_log' = Append(frame_log, Called("keyboard_input_system", type))
                   /\ \E add \in Registrations : systems' = systems \cup add
              ELSE UNCHANGED <<frame_log, systems>>
    /\ UNCHANGED <<loop_pc, to_visit, elapsed>>
    /\ LoopFrame

\* SDL_PollEvent returns 0: the range-for over systems begins
EventsDone ==
    /\ loop_pc = "events"
    /\ loop_pc' = NextPhase(loop_pc)
    /\ to_visit' = GenericSystems(systems)
    /\ UNCHANGED <<systems, frame_log, quit, polled, elapsed>>
    /\ LoopFrame

\* for (auto & [name, func] : systems), one system that is none of the three
\* special ones: an invalid result throws.  A callback that registers a new
\* system inserts into the map under the loop: without a rehash the new entry
\* is met or not, with a rehash the iterator is invalid and what is visited
\* next is undefined
VisitSystem ==
    /\ loop_pc = "systems"
    /\ Len(frame_log) < MaxFrameCalls
    /\ \E name \in to_visit, valid \in BOOLEAN, add \in Registrations :
           /\ frame_log' = Append(frame_log, Called(name, ""))
           /\ systems' = systems \cup add
           /\ IF ~valid
              THEN loop_pc' = "thrown" /\ to_visit' = {}
              ELSE IF add \subseteq systems
              THEN loop_pc' = loop_pc /\ to_visit' = to_visit \ {name}
              ELSE \/ loop_pc' = loop_pc /\ to_visit' \in SUBSET GenericSystems(systems')
                   \/ loop_pc' = "crash" /\ to_visit' = {}
    /\ UNCHANGED <<quit, polled, elapsed>>
    /\ LoopFrame

\* The range-for has reached end()
SystemsDone ==
    /\ loop_pc = "systems"
    /\ to_visit = {}
    /\ loop_pc' = NextPhase(loop_pc)
    /\ UNCHANGED <<systems, frame_log, to_visit, quit, polled, elapsed>>
    /\ LoopFrame

\* if (current_time - last_update_time >= update_interval): tick_system is
\* called if it is registered, and last_update_time = current_time
Tick ==
    /\ loop_pc = "tick"
    /\ loop_pc' = NextPhase(loop_pc)
    /\ IF elapsed >= update_interval
       THEN /\ elapsed' = 0
            /\ IF "tick_system" \in systems
               THEN /\ frame_log' = Append(frame_log, Called("tick_system", ""))
                    /\ \E add \in Registrations : systems' = systems \cup add
               ELSE UNCHANGED <<frame_log, systems>>
       ELSE UNCHANGED <<elapsed, frame_log, systems>>
    /\ UNCHANGED <<to_visit, quit, polled>>
    /\ LoopFrame

\* render_system is called if it is registered
Render ==
    /\ loop_pc = "render"
    /\ loop_pc' = NextPhase(loop_pc)
    /\ IF "render_system" \in systems
       THEN /\ frame_log' = Append(frame_log, Called("render_system", ""))
            /\ \E add \in Registrations : systems' = systems \cup add
       ELSE UNCHANGED <<frame_log, systems>>
    /\ UNCHANGED <<to_visit, quit, polled, elapsed>>
    /\ LoopFrame

\* SDL_GetTicks() moves on while the loop runs
TimePasses ==
    /\ loop_pc \in {"frame_start", "events", "systems", "tick", "render"}
    /\ elapsed < MaxElapsed
    /\ elapsed' = elapsed + 1
    /\ UNCHANGED <<systems, loop_pc, frame_log, to_visit, quit, polled>>
    /\ LoopFrame

LoopNext ==
    \/ AddSystem
    \/ EnterGameLoop
    \/ FrameStart
    \/ PollEvent
    \/ EventsDone
    \/ VisitSystem
    \/ SystemsDone
    \/ Tick
    \/ Render
    \/ TimePasses

\* The place of a callback in the order of a frame
Category(name) ==
    CASE name = "keyboard_input_system" -> 1
      [] name = "tick_system"           -> 3
      [] name = "render_system"         -> 4
      [] OTHER                          -> 2

\* C24: in every frame of game_loop the callbacks are called in the order
\* keyboard_input_system (for key-down events), then the registered systems
\* other than keyboard_input_system, tick_system and render_system, then
\* tick_system (only when at least the update interval has passed since the
\* last tick), then render_system: within a frame no callback of a later
\* category is called before one of an earlier category.
C24_FrameOrder ==
    /\ \A i, j \in 1..Len(frame_log) :
           i < j => Category(frame_log[i].name) <= Category(frame_log[j].name)
    /\ \A i, j \in 1..Len(frame_log) :
           (i < j /\ Category(frame_log[i].name) \in {3, 4}) =>
               frame_log[i].name # frame_log[j].name
    /\ \A i \in 1..Len(frame_log) :
           /\ frame_log[i].name = "keyboard_input_system" =>
                  frame_log[i].event = "SDL_KEYDOWN"
           /\ frame_log[i].name = "tick_system" =>
                  frame_log[i].elapsed >= update_interval
           /\ Category(frame_log[i].name) = 2 =>
                  frame_log[i].name \in GenericSystems(systems)

\* A frame has called keyboard_input_system, a system of the range-for,
\* tick_system and render_system, and has come to its end
C24_Witness ==
    /\ loop_pc = "frame_start"
    /\ Len(frame_log) = 4
    /\ \A c \in 1..4 : Category(frame_log[c].name) = c

\* ------------------------------------------------------------------------
\* Engine instances (engine.cpp): Engine::Engine, Engine::~Engine
\* ------------------------------------------------------------------------
\* What a step of a constructor or destructor leaves alone
InstFrame ==
    UNCHANGED <<astar_vars, ca_vars, reg_vars, game_vars, core_vars, search_vars,
                rng_vars, draw_vars, loop_vars>>

\* Some engine is alive, or is being constructed by a thread whose increment
\* returned 1, apart from thread t
OtherEngine(t) ==
    \E u \in Constructors \ {t} :
        ctor_pc[u] = "alive" \/ (ctor_pc[u] = "entered" /\ ctor_seen[u] = 1)

\* Engine::Engine, ++instance_ctr: the atomic increment and the value it gives
EnterConstructor(t) ==
    /\ ctor_pc[t] \in {"none", "thrown"}
    /\ instance_ctr' = instance_ctr + 1
    /\ ctor_seen' = [ctor_seen EXCEPT ![t] = instance_ctr + 1]
    /\ ctor_met' = [ctor_met EXCEPT ![t] = OtherEngine(t)]
    /\ ctor_pc' = [ctor_pc EXCEPT ![t] = "entered"]
    /\ InstFrame

\* Engine::Engine, the test != 1: --instance_ctr and throw, or the engine is
\* constructed
LeaveConstructor(t) ==
    /\ ctor_pc[t] = "entered"
    /\ IF ctor_seen[t] # 1
       THEN /\ instance_ctr' = instance_ctr - 1
            /\ ctor_pc' = [ctor_pc EXCEPT ![t] = "thrown"]
       ELSE /\ UNCHANGED instance_ctr
            /\ ctor_pc' = [ctor_pc EXCEPT ![t] = "alive"]
    /\ UNCHANGED <<ctor_seen, ctor_met>>
    /\ InstFrame

\* Engine::~Engine: tear_down(), --instance_ctr
Destructor(t) ==
    /\ ctor_pc[t] = "alive"
    /\ instance_ctr' = instance_ctr - 1
    /\ ctor_pc' = [ctor_pc EXCEPT ![t] = "none"]
    /\ UNCHANGED <<ctor_seen, ctor_met>>
    /\ InstFrame

InstancesNext ==
    \/ \E t \in Constructors : EnterConstructor(t)
    \/ \E t \in Constructors : LeaveConstructor(t)
    \/ \E t \in Constructors : Destructor(t)

\* At most one engine is alive
AtMostOneEngine == Cardinality({t \in Constructors : ctor_pc[t] = "alive"}) <= 1

\* C29: at most one Engine instance is alive at any time, in any interleaving
\* of constructions and destructions; a construction attempted while another
\* instance is alive throws and leaves the counter as it was; and a
\* construction attempted when no instance is alive (the live one has been
\* destroyed) succeeds: a construction throws only if, when it incremented the
\* counter, another engine was alive or was being constructed with success.
C29_OneEngineAtATime ==
    /\ AtMostOneEngine
    /\ \A t \in Constructors :
           (ctor_pc[t] = "entered" /\ ctor_seen[t] # 1) => ctor_met[t]

\* ------------------------------------------------------------------------
\* Specifications
\* ------------------------------------------------------------------------
InitAStar == AStarInit /\ CAIdle /\ RegInit /\ GameInit /\ EngineInit

SpecAStar == InitAStar /\ [][AStarNext]_vars

InitCA == CAInit /\ AStarIdle /\ RegInit /\ GameInit /\ EngineInit

SpecCA == InitCA /\ [][CANext]_vars

Init == RegInit /\ AStarIdle /\ CAIdle /\ GameInit /\ EngineInit

Next == RegNext

Spec == Init /\ [][Next]_vars

SpecScript == Init /\ [][ScriptNext]_vars

SpecScriptEntities == Init /\ [][ScriptEntitiesNext]_vars

SpecGame == Init /\ [][GameNext]_vars

SpecQuery == Init /\ [][QueryNext]_vars

SpecMaps == Init /\ [][MapsNext]_vars

InitView == ViewInit /\ AStarIdle /\ CAIdle /\ RegInit /\ GameInit

SpecView == InitView /\ [][ViewNext]_vars

InitViewSeq == ViewSeqInit /\ AStarIdle /\ CAIdle /\ RegInit /\ GameInit

SpecViewSeq == InitViewSeq /\ [][ViewSeqNext]_vars

InitGameMap == GameMapsInit /\ AStarIdle /\ CAIdle /\ RegInit /\ EngineInit

SpecGameMap == InitGameMap /\ [][GameMapNext]_vars

SpecGameWalk == InitGameMap /\ [][GameWalkNext]_vars

SpecGameFov == InitGameMap /\ [][GameFovNext]_vars

InitSearch == SearchInit /\ AStarIdle /\ CAIdle /\ RegInit /\ GameInit

\* A call that is under way keeps running
SpecSearch == InitSearch /\ [][SearchNext]_vars /\ WF_vars(SearchRun)

SpecRng == Init /\ [][RngNext]_vars

SpecDraw == Init /\ [][DrawNext]_vars

SpecLoop == Init /\ [][LoopNext]_vars

InitInstances == Init

SpecInstances == InitInstances /\ [][InstancesNext]_vars

====
